---------------------------- MODULE Spec2Model ----------------------------
(***************************************************************************)
(* Replicated ticket cache of package redis_stream: the redis replicator   *)
(* (SendUpdates / GetUpdates on the stream "om-replication"), the outgoing *)
(* replication queue and the incoming replication queue (polling goroutine,*)
(* drain loop, expiration sweep) of ReplicatedTicketCache.                 *)
(*                                                                         *)
(* Strings are modelled by what the code does with them:                   *)
(*   - a key is a pair <<ts, seq>> standing for the string "ts-seq"; a     *)
(*     negative ts stands for a key whose leading component is not a       *)
(*     number ("t1"), and EmptyKey for "";                                  *)
(*   - a value is a record [enc, exp]: enc says whether the bytes are      *)
(*     empty, undecodable or a serialized protobuf message, exp is the     *)
(*     expiration time (ms) carried by the decoded message.                *)
(***************************************************************************)
EXTENDS Integers, Sequences, FiniteSets, TLC

VARIABLES
    now,            \* wall clock, in milliseconds
    stream,         \* redis stream "om-replication": entries [id, name, key, value]
    lastId,         \* last entry id generated by the redis server
    committed,      \* history: every entry ever appended to the stream, in order
    wConn,          \* per writing instance, its pipeline as the redis server holds it
    updates,        \* batch passed to the latest SendUpdates call
    out,            \* responses returned by the latest SendUpdates call
    reply,          \* outcome of the latest pipelined redis exchange
    entryOf,        \* history: per element of the batch, the id of its entry (or NoEntry)
    submitted,      \* history: number of updates passed to SendUpdates so far
    replId,         \* redisReplicator.replId: id of the last entry read from the stream
    pollPc,         \* polling goroutine: "poll" (in GetUpdates) or "forward"
    results,        \* polling goroutine: updates returned by GetUpdates, not yet forwarded
    replStream,     \* channel from the polling goroutine to the drain loop
    applyPc,        \* apply loop: "drain" or "expire"
    drained,        \* number of updates applied in the current drain
    Tickets,        \* tc.Tickets: id -> ticket
    InactiveSet,    \* tc.InactiveSet: set of ids
    Assignments,    \* tc.Assignments: id -> assignment
    delivered,      \* history: the sequences returned by GetUpdates, in call order
    applied,        \* history: the updates applied to the cache, in apply order
    evicted,        \* history: whether an expiration sweep has deleted an entry
    stores,         \* apply loop: the cache after each store still to come of the step under way
    holdLeft,       \* apply loop: what is left to run of the timer updateTimeout
    UpRequests,     \* tc.UpRequests: channel of requests [id, Update]
    outPc,          \* outgoing queue: "collect", "commit" or "deliver"
    pipelineRequests, \* outgoing queue: the requests of the batch being built
    outIndex,       \* outgoing queue: index of the delivery loop
    received,       \* per request, the responses sent on its ResultsChan
    returned,       \* history: per request, the response SendUpdates returned for it
    nextReq,        \* history: number of the next request
    listening,      \* per request, whether its caller still receives on its ResultsChan
    replTS,         \* memoryReplicator.replTS, in milliseconds
    replCount,      \* memoryReplicator.replCount
    replChan,       \* history: the updates memoryReplicator.SendUpdates sent on replChan
    memOut,         \* history: the results of the memoryReplicator.SendUpdates calls
    memPc,          \* memoryReplicator.SendUpdates: "idle" or "send" (a call is under way)
    memPending,     \* memoryReplicator.SendUpdates: the updates the loop has still to send
    memReplies,     \* memoryReplicator.SendUpdates: the slice out of the call under way
    orChannels,     \* Or: len(channels) of the call (0: not called yet)
    orClosed,       \* Or: the channels that are closed: inputs <<"in", i>>, orDone <<"od", k>>
    odInput,        \* OrDone: the values the producer has still to send on c
    odInClosed,     \* OrDone: whether c is closed
    odCancelled,    \* OrDone: whether ctx is cancelled
    odPc,           \* OrDone goroutine: "select", "send" or "closed" (valStream closed)
    odV,            \* OrDone goroutine: the value v received from c
    odReceived,     \* history: the values the consumer received from valStream
    odListening,    \* OrDone: whether the consumer still receives from valStream
    teeInput,       \* Tee: the values the producer has still to send on in
    teeInClosed,    \* Tee: whether in is closed
    teeCancelled,   \* Tee: whether ctx is cancelled
    teePc,          \* Tee goroutine: "recv", "send" or "closed" (out1 and out2 closed)
    teeV,           \* Tee goroutine: the value v received from in
    teeI,           \* Tee goroutine: the counter i of the send loop
    teeO,           \* Tee goroutine: the outputs among o1, o2 that are not nil
    teeBuf,         \* Tee: the buffers of out1 and out2
    teeTaken,       \* history: the values the goroutine received from in
    teeGot,         \* history: the values received from out1 and from out2
    brStreams,      \* Bridge: number of streams the producer has still to send on chanStream
    brStreamsClosed, \* Bridge: whether chanStream is closed
    brInput,        \* Bridge: the values still to come on the stream being read
    brInClosed,     \* Bridge: whether the stream being read is closed
    brCancelled,    \* Bridge: whether ctx is cancelled
    brPc,           \* Bridge goroutine: "stream", "range", "send" or "closed"
    brVal,          \* Bridge goroutine: the value val of the range loop
    brOdPc,         \* goroutine of OrDone(ctx, stream): "select", "send" or "closed"
    brOdV,          \* goroutine of OrDone(ctx, stream): the value v
    brReceived,     \* history: the values the consumer received from valStream
    brListening     \* Bridge: whether the consumer still receives from valStream

logVars   == <<now, stream, lastId, committed, wConn>>
sendVars  == <<updates, out, reply, entryOf, submitted>>
callVars  == <<updates, out, reply, entryOf>>
pollVars  == <<replId, pollPc, results, delivered>>
cacheVars == <<Tickets, InactiveSet, Assignments>>
applyVars == <<applyPc, drained, Tickets, InactiveSet, Assignments, applied, evicted,
               stores, holdLeft>>
inVars    == <<replId, pollPc, results, delivered, replStream,
               applyPc, drained, Tickets, InactiveSet, Assignments, applied, evicted,
               stores, holdLeft>>
queueVars == <<UpRequests, outPc, pipelineRequests, outIndex, received, returned, nextReq,
               listening>>
memVars   == <<replTS, replCount, replChan, memOut, memPc, memPending, memReplies>>
baseVars  == <<logVars, sendVars, inVars, queueVars, memVars>>
orVars    == <<orChannels, orClosed>>
odVars    == <<odInput, odInClosed, odCancelled, odPc, odV, odReceived, odListening>>
teeVars   == <<teeInput, teeInClosed, teeCancelled, teePc, teeV, teeI, teeO, teeBuf,
               teeTaken, teeGot>>
brVars    == <<brStreams, brStreamsClosed, brInput, brInClosed, brCancelled, brPc, brVal,
               brOdPc, brOdV, brReceived, brListening>>
chanVars  == <<orVars, odVars, teeVars, brVars>>
notOrVars == <<baseVars, odVars, teeVars, brVars>>
notOdVars == <<baseVars, orVars, teeVars, brVars>>
notTeeVars == <<baseVars, orVars, odVars, brVars>>
notBrVars == <<baseVars, orVars, odVars, teeVars>>
vars      == <<now, stream, lastId, committed, wConn, updates, out, reply, entryOf, submitted,
               replId, pollPc, results, delivered, replStream,
               applyPc, drained, Tickets, InactiveSet, Assignments, applied, evicted,
               stores, holdLeft,
               UpRequests, outPc, pipelineRequests, outIndex, received, returned, nextReq,
               listening, replTS, replCount, replChan, memOut, memPc, memPending, memReplies,
               orChannels, orClosed,
               odInput, odInClosed, odCancelled, odPc, odV, odReceived, odListening,
               teeInput, teeInClosed, teeCancelled, teePc, teeV, teeI, teeO, teeBuf,
               teeTaken, teeGot,
               brStreams, brStreamsClosed, brInput, brInClosed, brCancelled, brPc, brVal,
               brOdPc, brOdV, brReceived, brListening>>

---------------------------------------------------------------------------
(* Bounds of the model *)

\* largest batch passed to one SendUpdates call
MaxBatch == 3
\* number of updates passed to SendUpdates in one behaviour
MaxSubmitted == 3
\* number of entries appended to the stream while the incoming queue runs
MaxLog == 2
\* number of clock ticks in one behaviour
MaxTicks == 2
\* number of updates the replicator hands to the apply loop in one behaviour
MaxForwarded == 2
\* XADDs the writers' pipelines carry in all
MaxPipelined == 3
\* number of updates passed to the in-memory replicator in one behaviour
MaxIssued == 4
\* number of updates passed to the in-memory replicator while the incoming
\* queue runs
MaxQueued == 3
\* largest number of channels passed to Or
MaxOrChannels == 5
\* number of values a producer sends on an input channel
MaxValues == 5
\* number of streams a producer sends on chanStream
MaxStreams == 2
\* number of values a producer sends on one stream of chanStream
MaxStreamValues == 2
\* number of requests the callers put on UpRequests in one behaviour
MaxRequests == 4

---------------------------------------------------------------------------
(* Configuration (RedisConfig) *)

OmCacheTicketTtlMs == 1
OmCacheAssignmentAdditionalTtlMs == 1
OmCacheInMaxUpdatesPerPoll == 2
OmCacheOutMaxQueueThreshold == 2

\* capacity of the channel tc.UpRequests
UpRequestsCap == 2
\* a capacity of tc.UpRequests below OmCacheOutMaxQueueThreshold
SmallUpRequestsCap == 1

\* The clock starts after the epoch by more than every configured TTL, as a
\* 13-digit millisecond clock does.
StartTime == OmCacheTicketTtlMs + OmCacheAssignmentAdditionalTtlMs + 2
MaxTime   == StartTime + MaxTicks

---------------------------------------------------------------------------
(* store.go: commands, StateUpdate, StateResponse *)

Ticket     == 0
Activate   == 1
Deactivate == 2
Assign     == 3
\* a Cmd outside the enum (the default: case of SendUpdates's switch)
InvalidCmd == 4

nil             == "nil"
NoTicketKeyErr  == "missing ticket key"
NoTicketDataErr == "no ticket data"
NoAssignmentErr == "missing assignment"
InvalidInputErr == "invalid input"

EmptyKey   == <<-1, 0>>
NonIdKey   == <<-1, 1>>
NoEntry    == <<-2, 0>>
EmptyValue == [enc |-> "empty", exp |-> 0]

StateUpdate(cmd, key, value) == [Cmd |-> cmd, Key |-> key, Value |-> value]
StateResponse(result, err)   == [Result |-> result, Err |-> err]

\* replIdValidator: ^\d{13}-\d+$
GetReplIdValidator(key) == key[1] >= 0 /\ key[2] >= 0

IdLess(a, b) == a[1] < b[1] \/ (a[1] = b[1] /\ a[2] < b[2])

---------------------------------------------------------------------------
(* Sequence helpers *)

RECURSIVE SeqsUpTo(_, _)
SeqsUpTo(S, n) ==
    IF n = 0 THEN {<<>>}
    ELSE LET shorter == SeqsUpTo(S, n - 1)
         IN  shorter \cup {Append(s, x) : s \in {t \in shorter : Len(t) = n - 1}, x \in S}

Range(s) == {s[i] : i \in 1..Len(s)}

---------------------------------------------------------------------------
(* redisReplicator.SendUpdates *)

\* Validate without the check of an Assign's value.
ValidateMissingAssign(update) ==
    CASE update.Cmd = Ticket ->
            IF update.Value = EmptyValue THEN NoTicketDataErr ELSE nil
      [] update.Cmd \in {Activate, Deactivate} ->
            IF update.Key = EmptyKey THEN NoTicketKeyErr ELSE nil
      [] update.Cmd = Assign ->
            IF update.Key = EmptyKey THEN NoTicketKeyErr ELSE nil
      [] OTHER -> InvalidInputErr

\* Input validation of the switch over update.Cmd: the error set on out[i],
\* or nil when the update is buffered as an XADD.
Validate(update) ==
    CASE update.Cmd = Ticket ->
            IF update.Value = EmptyValue THEN NoTicketDataErr ELSE nil
      [] update.Cmd \in {Activate, Deactivate} ->
            IF update.Key = EmptyKey THEN NoTicketKeyErr ELSE nil
      [] update.Cmd = Assign ->
            IF update.Key = EmptyKey THEN NoTicketKeyErr
            ELSE IF update.Value = EmptyValue THEN NoAssignmentErr
            ELSE nil
      [] OTHER -> InvalidInputErr

\* The field list of the XADD built for a validated update (redisArgs after
\* "om-replication", "*"): only the fields the command sends are kept.
XAddArgs(update) ==
    CASE update.Cmd = Ticket ->
            [name |-> "ticket", key |-> EmptyKey, value |-> update.Value]
      [] update.Cmd = Activate ->
            [name |-> "activate", key |-> update.Key, value |-> EmptyValue]
      [] update.Cmd = Deactivate ->
            [name |-> "deactivate", key |-> update.Key, value |-> EmptyValue]
      [] OTHER ->
            [name |-> "assign", key |-> update.Key, value |-> update.Value]

\* Entry id the redis server generates for XADD om-replication * at time t:
\* <ms>-<seq>, always greater than the last id generated.
NextId(last, t) ==
    IF t > last[1] THEN <<t, 0>> ELSE <<last[1], last[2] + 1>>

\* The buffered XADDs executed by the server, in the order they were sent.
RECURSIVE XAddAll(_, _, _)
XAddAll(cmds, last, t) ==
    IF cmds = <<>> THEN <<>>
    ELSE LET id == NextId(last, t)
         IN  <<[id |-> id, name |-> cmds[1].name, key |-> cmds[1].key,
                value |-> cmds[1].value]>> \o XAddAll(Tail(cmds), id, t)

\* XTRIM om-replication MINID thresh
XTrim(s, thresh) == SelectSeq(s, LAMBDA e : e.id[1] >= thresh)

\* Indexes of the batch whose XADD was buffered (those that passed validation).
Sent(batch) == {i \in 1..Len(batch) : Validate(batch[i]) = nil}

RECURSIVE SentCmds(_, _)
SentCmds(batch, i) ==
    IF i > Len(batch) THEN <<>>
    ELSE (IF Validate(batch[i]) = nil THEN <<XAddArgs(batch[i])>> ELSE <<>>)
         \o SentCmds(batch, i + 1)

\* The response loop over the reply r = [XADD results..., XTRIM count]:
\* index runs over the XADD results and addresses out and updates by the same
\* index.
ResponseLoop(batch, ids) ==
    [i \in 1..Len(batch) |->
        IF i <= Len(ids)
        THEN IF Validate(batch[i]) # nil
             THEN StateResponse(batch[i].Key, Validate(batch[i]))
             ELSE StateResponse(ids[i], nil)
        ELSE StateResponse(EmptyKey, Validate(batch[i]))]

\* A call that buffers the XTRIM only when it has buffered an XADD.
SendUpdatesTrimAfterAdd(batch, rep, s, last, t) ==
    LET entries == XAddAll(SentCmds(batch, 1), last, t)
        ids     == [k \in 1..Len(entries) |-> entries[k].id]
    IN  IF rep = "ok"
        THEN [out    |-> ResponseLoop(batch, ids),
              stream |-> IF entries = <<>> THEN s
                         ELSE XTrim(s \o entries, t - OmCacheTicketTtlMs),
              added  |-> entries,
              lastId |-> IF entries = <<>> THEN last ELSE entries[Len(entries)].id]
        ELSE [out    |-> [i \in 1..Len(batch) |->
                             StateResponse(EmptyKey, Validate(batch[i]))],
              stream |-> s,
              added  |-> <<>>,
              lastId |-> last]

\* The whole call: what it returns and what it does to the stream.
\* rep = "ok": the pipeline reached the server and its reply was read;
\* rep = "down": rConn.Do("") failed and r is nil.
SendUpdates(batch, rep, s, last, t) ==
    LET entries == XAddAll(SentCmds(batch, 1), last, t)
        ids     == [k \in 1..Len(entries) |-> entries[k].id]
    IN  IF rep = "ok"
        THEN [out    |-> ResponseLoop(batch, ids),
              stream |-> XTrim(s \o entries, t - OmCacheTicketTtlMs),
              added  |-> entries,
              lastId |-> IF entries = <<>> THEN last ELSE entries[Len(entries)].id]
        ELSE [out    |-> [i \in 1..Len(batch) |->
                             StateResponse(EmptyKey, Validate(batch[i]))],
              stream |-> s,
              added  |-> <<>>,
              lastId |-> last]

\* History: the id of the entry created for each element of the batch.
EntryOf(batch, added) ==
    [i \in 1..Len(batch) |->
        IF i \in Sent(batch) /\ added # <<>>
        THEN added[Cardinality({j \in Sent(batch) : j <= i})].id
        ELSE NoEntry]

---------------------------------------------------------------------------
(* Write connections: the pipeline of one SendUpdates call at the server *)

\* Instances of the replicator that write to the same stream.
Writers == 1..2

\* A connection of wConnPool as the server sees it: the commands of the
\* pipeline it has received and not yet executed, the number of XADDs the
\* pipeline was sent with, and the ids it has replied for them.
Conn(pc, cmds, sent, thresh, replies) ==
    [pc |-> pc, cmds |-> cmds, sent |-> sent, thresh |-> thresh, replies |-> replies]

IdleConn == Conn("idle", <<>>, 0, 0, <<>>)

\* XADDs of all pipelines the server has received and not yet executed.
RECURSIVE Buffered(_, _)
Buffered(conns, w) ==
    IF w \notin DOMAIN conns THEN 0
    ELSE Len(conns[w].cmds) + Buffered(conns, w + 1)

---------------------------------------------------------------------------
(* Inputs *)

TicketPb(exp) == [enc |-> "pb", exp |-> exp]
SomeValue     == TicketPb(MaxTime + 1)

\* Representative updates: each command well-formed and with each of its
\* validation failures.
SendInputs ==
    { StateUpdate(Ticket, EmptyKey, SomeValue),
      StateUpdate(Ticket, NonIdKey, EmptyValue),
      StateUpdate(Activate, NonIdKey, EmptyValue),
      StateUpdate(Activate, EmptyKey, EmptyValue),
      StateUpdate(Deactivate, NonIdKey, EmptyValue),
      StateUpdate(Assign, NonIdKey, SomeValue),
      StateUpdate(Assign, NonIdKey, EmptyValue),
      StateUpdate(Assign, EmptyKey, SomeValue),
      StateUpdate(InvalidCmd, NonIdKey, SomeValue) }

Min(a, b) == IF a < b THEN a ELSE b

Batches(n) == SeqsUpTo(SendInputs, Min(MaxBatch, n)) \ {<<>>}

---------------------------------------------------------------------------
(* redisReplicator.GetUpdates *)

\* XREAD that returns the newest entries first.
XReadNewestFirst(s, cursor, count) ==
    LET newer == SelectSeq(s, LAMBDA e : IdLess(cursor, e.id))
        n     == Min(count, Len(newer))
    IN  [k \in 1..n |-> newer[Len(newer) + 1 - k]]

\* XREAD that also returns the entry the cursor names.
XReadFromCursor(s, cursor, count) ==
    LET newer == SelectSeq(s, LAMBDA e : ~IdLess(e.id, cursor))
    IN  SubSeq(newer, 1, Min(count, Len(newer)))

\* XREAD COUNT count STREAMS om-replication cursor: the first count entries
\* of the stream whose id is greater than the cursor.
XRead(s, cursor, count) ==
    LET newer == SelectSeq(s, LAMBDA e : IdLess(cursor, e.id))
    IN  SubSeq(newer, 1, Min(count, Len(newer)))

\* A parse that takes the key of a ticket from the entry's fields.
ParseEntryFieldKey(e) ==
    CASE e.name = "ticket" ->
            [Cmd |-> Ticket, Key |-> e.key, Value |-> e.value, lid |-> e.id]
      [] e.name = "activate" ->
            [Cmd |-> Activate, Key |-> e.key, Value |-> EmptyValue, lid |-> e.id]
      [] e.name = "deactivate" ->
            [Cmd |-> Deactivate, Key |-> e.key, Value |-> EmptyValue, lid |-> e.id]
      [] OTHER ->
            [Cmd |-> Assign, Key |-> e.key, Value |-> e.value, lid |-> e.id]

\* The StateUpdate built from one stream entry (switch y[0]). lid records the
\* id of the entry the update was read from; the code does not keep it.
ParseEntry(e) ==
    CASE e.name = "ticket" ->
            [Cmd |-> Ticket, Key |-> e.id, Value |-> e.value, lid |-> e.id]
      [] e.name = "activate" ->
            [Cmd |-> Activate, Key |-> e.key, Value |-> EmptyValue, lid |-> e.id]
      [] e.name = "deactivate" ->
            [Cmd |-> Deactivate, Key |-> e.key, Value |-> EmptyValue, lid |-> e.id]
      [] OTHER ->
            [Cmd |-> Assign, Key |-> e.key, Value |-> e.value, lid |-> e.id]

\* The value of an entry that has no value field.
MissingValue == [enc |-> "missing", exp |-> 0]

\* len(y): the strings of an entry, its field names and values in turn.
EntryFields(e) ==
    IF e.name = "assign" /\ e.value # MissingValue THEN 4 ELSE 2

\* thisUpdate.Value = y[3] with len(y) < 4: index out of range, a run-time
\* panic.
ParsePanics(e) == e.name = "assign" /\ EntryFields(e) < 4

\* A call panics when an entry it reads does.
GetUpdatesPanics(s, cursor) ==
    LET read == XRead(s, cursor, OmCacheInMaxUpdatesPerPoll)
    IN  \E k \in 1..Len(read) : ParsePanics(read[k])

\* What one call returns, and the cursor it leaves behind.
GetUpdates(s, cursor) ==
    LET read == XRead(s, cursor, OmCacheInMaxUpdatesPerPoll)
    IN  [out    |-> [k \in 1..Len(read) |-> ParseEntry(read[k])],
         replId |-> IF read = <<>> THEN cursor ELSE read[Len(read)].id]

---------------------------------------------------------------------------
(* ReplicatedTicketCache.IncomingReplicationQueue: applying an update *)

\* proto.Unmarshal of a value: whether it fails, and the expiration time of
\* the message it leaves (the zero time when the field is not set).
Unmarshal(value) ==
    [err |-> value.enc = "garbage",
     exp |-> IF value.enc = "pb" THEN value.exp ELSE 0]

Store(m, k, v) == [x \in DOMAIN m \cup {k} |-> IF x = k THEN v ELSE m[x]]
Restrict(m, S) == [x \in DOMAIN m \cap S |-> m[x]]

EmptyCache == [Tickets |-> <<>>, InactiveSet |-> {}, Assignments |-> <<>>]

\* The Ticket case without the store into the inactive set.
ApplyUpdateNoInactive(c, u) ==
    CASE u.Cmd = Ticket ->
            [c EXCEPT !.Tickets =
                Store(c.Tickets, u.Key, [Id |-> u.Key, exp |-> Unmarshal(u.Value).exp])]
      [] u.Cmd = Activate ->
            [c EXCEPT !.InactiveSet = c.InactiveSet \ {u.Key}]
      [] u.Cmd = Deactivate ->
            [c EXCEPT !.InactiveSet = c.InactiveSet \cup {u.Key}]
      [] u.Cmd = Assign ->
            [c EXCEPT !.Assignments = Store(c.Assignments, u.Key, u.Value)]
      [] OTHER -> c

\* The Activate case deleting the ticket together with its inactive mark.
ApplyUpdateActivateDeletes(c, u) ==
    CASE u.Cmd = Ticket ->
            [c EXCEPT !.InactiveSet = c.InactiveSet \cup {u.Key},
                      !.Tickets =
                Store(c.Tickets, u.Key, [Id |-> u.Key, exp |-> Unmarshal(u.Value).exp])]
      [] u.Cmd = Activate ->
            [c EXCEPT !.InactiveSet = c.InactiveSet \ {u.Key},
                      !.Tickets = Restrict(c.Tickets, DOMAIN c.Tickets \ {u.Key})]
      [] u.Cmd = Deactivate ->
            [c EXCEPT !.InactiveSet = c.InactiveSet \cup {u.Key}]
      [] u.Cmd = Assign ->
            [c EXCEPT !.Assignments = Store(c.Assignments, u.Key, u.Value)]
      [] OTHER -> c

\* A switch whose Assign case also takes the key out of the inactive set.
ApplyUpdateAssignActivates(c, u) ==
    CASE u.Cmd = Ticket ->
            [c EXCEPT !.InactiveSet = c.InactiveSet \cup {u.Key},
                      !.Tickets =
                Store(c.Tickets, u.Key, [Id |-> u.Key, exp |-> Unmarshal(u.Value).exp])]
      [] u.Cmd = Activate ->
            [c EXCEPT !.InactiveSet = c.InactiveSet \ {u.Key}]
      [] u.Cmd = Deactivate ->
            [c EXCEPT !.InactiveSet = c.InactiveSet \cup {u.Key}]
      [] u.Cmd = Assign ->
            [c EXCEPT !.Assignments = Store(c.Assignments, u.Key, u.Value),
                      !.InactiveSet = c.InactiveSet \ {u.Key}]
      [] OTHER -> c

\* switch curUpdate.Cmd of the drain loop
ApplyUpdate(c, u) ==
    CASE u.Cmd = Ticket ->
            [c EXCEPT !.InactiveSet = c.InactiveSet \cup {u.Key},
                      !.Tickets =
                Store(c.Tickets, u.Key, [Id |-> u.Key, exp |-> Unmarshal(u.Value).exp])]
      [] u.Cmd = Activate ->
            [c EXCEPT !.InactiveSet = c.InactiveSet \ {u.Key}]
      [] u.Cmd = Deactivate ->
            [c EXCEPT !.InactiveSet = c.InactiveSet \cup {u.Key}]
      [] u.Cmd = Assign ->
            [c EXCEPT !.Assignments = Store(c.Assignments, u.Key, u.Value)]
      [] OTHER -> c

---------------------------------------------------------------------------
(* The apply switch, store by store *)

\* A Ticket case that stores the ticket before the inactive mark.
TicketStoresTicketFirst(c, u) ==
    <<[c EXCEPT !.Tickets =
          Store(c.Tickets, u.Key, [Id |-> u.Key, exp |-> Unmarshal(u.Value).exp])],
      ApplyUpdate(c, u)>>

\* case Ticket: tc.InactiveSet.Store, then tc.Tickets.Store
TicketStores(c, u) ==
    <<[c EXCEPT !.InactiveSet = c.InactiveSet \cup {u.Key}], ApplyUpdate(c, u)>>

\* The cache after each store of the apply of u, in the order of the stores.
StoresOf(c, u) ==
    IF u.Cmd = Ticket THEN TicketStores(c, u) ELSE <<ApplyUpdate(c, u)>>

---------------------------------------------------------------------------
(* ReplicatedTicketCache.IncomingReplicationQueue: the expiration block *)

\* strconv.ParseInt(strings.Split(id, "-")[0], 10, 64)
ParseCreationTime(id) ==
    [err |-> id[1] < 0, val |-> IF id[1] < 0 THEN 0 ELSE id[1]]

\* An inactive-set pass that expires an id as soon as its age reaches the TTL.
ExpireInactiveAtTtl(c, t) ==
    LET expired == {id \in c.InactiveSet :
                        /\ ~ParseCreationTime(id).err
                        /\ t - ParseCreationTime(id).val >= OmCacheTicketTtlMs}
    IN  [c EXCEPT !.Tickets = Restrict(c.Tickets, DOMAIN c.Tickets \ expired),
                  !.InactiveSet = c.InactiveSet \ expired]

\* An inactive-set pass that removes the expired ids from the inactive set
\* and leaves their tickets.
ExpireInactiveKeepTicket(c, t) ==
    LET expired == {id \in c.InactiveSet :
                        /\ ~ParseCreationTime(id).err
                        /\ t - ParseCreationTime(id).val > OmCacheTicketTtlMs}
    IN  [c EXCEPT !.InactiveSet = c.InactiveSet \ expired]

\* An inactive-set pass that stops at the first id it expires.
ExpireInactiveFirstOnly(c, t) ==
    LET expired == {id \in c.InactiveSet :
                        /\ ~ParseCreationTime(id).err
                        /\ t - ParseCreationTime(id).val > OmCacheTicketTtlMs}
        first   == {id \in expired : \A o \in expired : o = id \/ IdLess(id, o)}
    IN  [c EXCEPT !.Tickets = Restrict(c.Tickets, DOMAIN c.Tickets \ first),
                  !.InactiveSet = c.InactiveSet \ first]

\* InactiveSet.Range: ids whose age exceeds the ticket TTL leave the inactive
\* set, and their tickets leave Tickets; an id that does not parse is skipped.
ExpireInactive(c, t) ==
    LET expired == {id \in c.InactiveSet :
                        /\ ~ParseCreationTime(id).err
                        /\ t - ParseCreationTime(id).val > OmCacheTicketTtlMs}
    IN  [c EXCEPT !.Tickets = Restrict(c.Tickets, DOMAIN c.Tickets \ expired),
                  !.InactiveSet = c.InactiveSet \ expired]

\* A Tickets pass that deletes inactive tickets only.
ExpireTicketsInactiveOnly(c, t) ==
    [c EXCEPT !.Tickets =
        Restrict(c.Tickets, {id \in DOMAIN c.Tickets :
                                ~(t > c.Tickets[id].exp /\ id \in c.InactiveSet)})]

\* Tickets.Range: tickets whose own expiration time has passed are deleted.
ExpireTickets(c, t) ==
    [c EXCEPT !.Tickets =
        Restrict(c.Tickets, {id \in DOMAIN c.Tickets : ~(t > c.Tickets[id].exp)})]

\* An Assignments pass that deletes an assignment as soon as its age exceeds
\* the ticket TTL.
ExpireAssignmentsAtTicketTtl(c, t) ==
    [c EXCEPT !.Assignments =
        Restrict(c.Assignments,
                 {id \in DOMAIN c.Assignments :
                    ~(t - ParseCreationTime(id).val > OmCacheTicketTtlMs)})]

\* Assignments.Range: a parse error is logged and the loop body goes on with
\* the zero creation time.
ExpireAssignments(c, t) ==
    [c EXCEPT !.Assignments =
        Restrict(c.Assignments,
                 {id \in DOMAIN c.Assignments :
                    ~(t - ParseCreationTime(id).val >
                        OmCacheTicketTtlMs + OmCacheAssignmentAdditionalTtlMs)})]

Expire(c, t) == ExpireAssignments(ExpireTickets(ExpireInactive(c, t), t), t)

\* The orders in which a Range can visit the keys of S.
Orders(S) ==
    {o \in [1..Cardinality(S) -> S] : \A i, j \in 1..Cardinality(S) : i # j => o[i] # o[j]}

\* The InactiveSet pass delete by delete, visiting the ids in the given
\* order: for an expired id tc.Tickets.LoadAndDelete, then
\* tc.InactiveSet.Delete.
RECURSIVE InactiveStores(_, _, _)
InactiveStores(c, t, order) ==
    IF order = <<>> THEN <<>>
    ELSE LET id == Head(order)
             gone == /\ ~ParseCreationTime(id).err
                     /\ t - ParseCreationTime(id).val > OmCacheTicketTtlMs
             c1 == [c EXCEPT !.Tickets = Restrict(c.Tickets, DOMAIN c.Tickets \ {id})]
             c2 == [c1 EXCEPT !.InactiveSet = c.InactiveSet \ {id}]
         IN  IF ~gone THEN InactiveStores(c, t, Tail(order))
             ELSE (IF id \in DOMAIN c.Tickets THEN <<c1, c2>> ELSE <<c2>>)
                  \o InactiveStores(c2, t, Tail(order))

\* The cache after each delete of the expiration block: the InactiveSet pass
\* delete by delete, then what the Tickets pass and the Assignments pass
\* leave.
SweepStores(c, t, order) ==
    LET ci == ExpireInactive(c, t)
        ct == ExpireTickets(ci, t)
        ca == ExpireAssignments(ct, t)
    IN  InactiveStores(c, t, order)
        \o (IF ct # ci THEN <<ct>> ELSE <<>>)
        \o (IF ca # ct THEN <<ca>> ELSE <<>>)

---------------------------------------------------------------------------
(* The incoming replication queue as a state machine *)

Cache == [Tickets |-> Tickets, InactiveSet |-> InactiveSet, Assignments |-> Assignments]

\* A receive that takes the oldest element and loses the one behind it.
RecvSkipping(ch) ==
    [val |-> Head(ch), rest |-> IF Len(ch) > 1 THEN Tail(Tail(ch)) ELSE <<>>]

\* A receive that takes the newest element of the channel.
RecvNewest(ch) == [val |-> ch[Len(ch)], rest |-> SubSeq(ch, 1, Len(ch) - 1)]

\* chan receive: the oldest element first
Recv(ch) == [val |-> Head(ch), rest |-> Tail(ch)]

\* time.After(time.Millisecond * 500): the time a timer takes to fire, in
\* steps of the timer.
HoldTicks == 2

InitIn ==
    /\ replId = <<StartTime - OmCacheTicketTtlMs - OmCacheAssignmentAdditionalTtlMs, 0>>
    /\ pollPc = "poll"
    /\ results = <<>>
    /\ delivered = <<>>
    /\ replStream = <<>>
    /\ applyPc = "drain"
    /\ drained = 0
    /\ Tickets = <<>>
    /\ InactiveSet = {}
    /\ Assignments = <<>>
    /\ applied = <<>>
    /\ evicted = FALSE
    /\ stores = <<>>
    /\ holdLeft = HoldTicks

\* results := tc.Replicator.GetUpdates(), with at least one update returned
\* (a call that returns nothing leaves every variable as it was).
PollGetUpdates ==
    LET res == GetUpdates(stream, replId)
    IN  /\ pollPc = "poll"
        /\ ~GetUpdatesPanics(stream, replId)
        /\ res.out # <<>>
        /\ results' = res.out
        /\ replId' = res.replId
        /\ delivered' = Append(delivered, res.out)
        /\ pollPc' = "forward"
        /\ UNCHANGED <<replStream, applyVars, logVars, sendVars, queueVars, memVars, chanVars>>

\* results := tc.Replicator.GetUpdates() panics: the polling goroutine ends,
\* and the process with it.
PollPanics ==
    /\ pollPc = "poll"
    /\ GetUpdatesPanics(stream, replId)
    /\ pollPc' = "panic"
    /\ UNCHANGED <<replId, results, delivered, replStream, applyVars, logVars, sendVars,
                   queueVars, memVars, chanVars>>

\* replStream <- *curUpdate, for the next update of results; blocks while the
\* channel is full. After the last one the goroutine polls again.
PollForward ==
    /\ pollPc = "forward"
    /\ Len(replStream) < OmCacheInMaxUpdatesPerPoll
    /\ replStream' = Append(replStream, Head(results))
    /\ results' = Tail(results)
    /\ pollPc' = IF Tail(results) = <<>> THEN "poll" ELSE "forward"
    /\ UNCHANGED <<replId, delivered, applyVars, logVars, sendVars, queueVars, memVars, chanVars>>

\* case curUpdate := <-replStream
DrainApply ==
    LET r == Recv(replStream)
        c == ApplyUpdate(Cache, r.val)
    IN  /\ applyPc = "drain"
        /\ replStream # <<>>
        /\ replStream' = r.rest
        /\ Tickets' = c.Tickets
        /\ InactiveSet' = c.InactiveSet
        /\ Assignments' = c.Assignments
        /\ applied' = Append(applied, r.val)
        /\ drained' = drained + 1
        /\ holdLeft' = HoldTicks
        /\ UNCHANGED <<applyPc, evicted, stores, pollVars, logVars, sendVars, queueVars,
                       memVars, chanVars>>

\* default: nothing left to process; the timer is dropped
DrainEmpty ==
    /\ applyPc = "drain"
    /\ replStream = <<>>
    /\ applyPc' = "expire"
    /\ holdLeft' = HoldTicks
    /\ UNCHANGED <<drained, cacheVars, applied, evicted, stores, replStream,
                   pollVars, logVars, sendVars, queueVars, memVars, chanVars>>

\* case <-updateTimeout: the timer, armed anew in every iteration, fired
\* before the select was evaluated; the timer is dropped
DrainHoldTimeout ==
    /\ applyPc = "drain"
    /\ applyPc' = "expire"
    /\ holdLeft' = HoldTicks
    /\ UNCHANGED <<drained, cacheVars, applied, evicted, stores, replStream,
                   pollVars, logVars, sendVars, queueVars, memVars, chanVars>>

\* the expiration block, then the sleep before the next drain
ExpireStep ==
    LET c == Expire(Cache, now)
    IN  /\ applyPc = "expire"
        /\ Tickets' = c.Tickets
        /\ InactiveSet' = c.InactiveSet
        /\ Assignments' = c.Assignments
        /\ evicted' = (evicted \/ c # Cache)
        /\ drained' = 0
        /\ applyPc' = "drain"
        /\ UNCHANGED <<applied, stores, holdLeft, replStream, pollVars, logVars, sendVars,
                       queueVars, memVars, chanVars>>

---------------------------------------------------------------------------
(* The apply loop as concurrent readers of the cache see it *)

\* case curUpdate := <-replStream: the update is received, its stores follow
ReceiveUpdate ==
    LET r == Recv(replStream)
    IN  /\ applyPc = "drain"
        /\ replStream # <<>>
        /\ replStream' = r.rest
        /\ stores' = StoresOf(Cache, r.val)
        /\ applied' = Append(applied, r.val)
        /\ drained' = drained + 1
        /\ applyPc' = "store"
        /\ holdLeft' = HoldTicks
        /\ UNCHANGED <<cacheVars, evicted, pollVars, logVars, sendVars, queueVars,
                       memVars, chanVars>>

\* the expiration block starts
BeginSweep ==
    /\ applyPc = "expire"
    /\ \E order \in Orders(InactiveSet) :
          stores' = SweepStores(Cache, now, order)
    /\ applyPc' = "sweep"
    /\ UNCHANGED <<drained, cacheVars, applied, evicted, holdLeft, replStream, pollVars,
                   logVars, sendVars, queueVars, memVars, chanVars>>

\* One store or delete on the maps of the cache becomes visible.
StoreStep ==
    /\ applyPc \in {"store", "sweep"}
    /\ stores # <<>>
    /\ Tickets' = Head(stores).Tickets
    /\ InactiveSet' = Head(stores).InactiveSet
    /\ Assignments' = Head(stores).Assignments
    /\ stores' = Tail(stores)
    /\ evicted' = (evicted \/ applyPc = "sweep")
    /\ applyPc' = IF applyPc = "store" /\ Tail(stores) = <<>> THEN "drain" ELSE applyPc
    /\ UNCHANGED <<drained, applied, holdLeft, replStream, pollVars, logVars, sendVars,
                   queueVars, memVars, chanVars>>

\* the expiration block is over: the sleep before the next drain
EndSweep ==
    /\ applyPc = "sweep"
    /\ stores = <<>>
    /\ applyPc' = "drain"
    /\ drained' = 0
    /\ UNCHANGED <<cacheVars, applied, evicted, stores, holdLeft, replStream, pollVars,
                   logVars, sendVars, queueVars, memVars, chanVars>>

---------------------------------------------------------------------------
(* The stream, the clock and a call of SendUpdates *)

InitLog ==
    /\ now = StartTime
    /\ stream = <<>>
    /\ lastId = <<0, 0>>
    /\ committed = <<>>
    /\ wConn = [w \in Writers |-> IdleConn]

InitSend ==
    /\ InitLog
    /\ updates = <<>>
    /\ out = <<>>
    /\ reply = "none"
    /\ entryOf = <<>>
    /\ submitted = 0

Tick ==
    /\ now < MaxTime
    /\ now' = now + 1
    /\ UNCHANGED <<stream, lastId, committed, wConn>>

CallSendUpdates(batch, rep) ==
    LET res == SendUpdates(batch, rep, stream, lastId, now)
    IN  /\ updates' = batch
        /\ reply' = rep
        /\ out' = res.out
        /\ entryOf' = EntryOf(batch, res.added)
        /\ stream' = res.stream
        /\ lastId' = res.lastId
        /\ committed' = committed \o res.added
        /\ UNCHANGED <<now, wConn>>

---------------------------------------------------------------------------
(* ReplicatedTicketCache.OutgoingReplicationQueue *)

NoResponse == StateResponse(NoEntry, "none")

\* Updates the callers submit: a ticket, a ticket without data (malformed)
\* and an activation.
RequestInputs ==
    { StateUpdate(Ticket, EmptyKey, SomeValue),
      StateUpdate(Ticket, NonIdKey, EmptyValue),
      StateUpdate(Activate, NonIdKey, EmptyValue) }

\* pipeline: the updates of the collected requests, in the order collected
Pipeline(reqs) == [k \in 1..Len(reqs) |-> reqs[k].Update]

\* A delivery loop that sends every result to the first request of the batch.
DeliverToFirst(reqs, index) == reqs[1].id

\* A delivery loop that walks the requests from the end.
DeliverToReversed(reqs, index) == reqs[Len(reqs) + 1 - index].id

\* pipelineRequests[index].ResultsChan <- result
DeliverTo(reqs, index) == reqs[index].id

InitOut ==
    /\ UpRequests = <<>>
    /\ outPc = "collect"
    /\ pipelineRequests = <<>>
    /\ outIndex = 1
    /\ received = [r \in 1..MaxRequests |-> <<>>]
    /\ returned = [r \in 1..MaxRequests |-> NoResponse]
    /\ nextReq = 1
    /\ listening = [r \in 1..MaxRequests |-> TRUE]

\* New: replTS is the time of construction.
InitMem ==
    /\ replTS = StartTime
    /\ replCount = 0
    /\ replChan = <<>>
    /\ memOut = <<>>
    /\ memPc = "idle"
    /\ memPending = <<>>
    /\ memReplies = <<>>

\* out1 and out2
TeeOutputs == {1, 2}

\* make(chan T, 1)
TeeCap == 1

\* Or has not been called.
InitOr ==
    /\ orChannels = 0
    /\ orClosed = {}

\* OrDone has been called: its goroutine is at the select, the producer has
\* the values 1, 2, ... to send.
InitOrDone ==
    /\ odInput = [k \in 1..MaxValues |-> k]
    /\ odInClosed = FALSE
    /\ odCancelled = FALSE
    /\ odPc = "select"
    /\ odV = 0
    /\ odReceived = <<>>
    /\ odListening = TRUE

\* Tee has been called: out1 and out2 are empty, the goroutine is at the
\* first select, the producer has the values 1, 2, ... to send.
InitTee ==
    /\ teeInput = [k \in 1..MaxValues |-> k]
    /\ teeInClosed = FALSE
    /\ teeCancelled = FALSE
    /\ teePc = "recv"
    /\ teeV = 0
    /\ teeI = 0
    /\ teeO = {}
    /\ teeBuf = [o \in TeeOutputs |-> <<>>]
    /\ teeTaken = <<>>
    /\ teeGot = [o \in TeeOutputs |-> <<>>]

\* Bridge has been called: its goroutine is at the select on chanStream.
InitBridge ==
    /\ brStreams = MaxStreams
    /\ brStreamsClosed = FALSE
    /\ brInput = <<>>
    /\ brInClosed = FALSE
    /\ brCancelled = FALSE
    /\ brPc = "stream"
    /\ brVal = 0
    /\ brOdPc = "closed"
    /\ brOdV = 0
    /\ brReceived = <<>>
    /\ brListening = TRUE

InitChan == InitOr /\ InitOrDone /\ InitTee /\ InitBridge

\* The state after construction: an empty stream, idle queues, an empty cache.
Init == InitSend /\ InitIn /\ InitOut /\ InitMem /\ InitChan

\* A caller enqueues an UpdateRequest with a result channel of its own, on an
\* inbound channel of capacity cap; it then awaits the response.
SubmitTo(cap) ==
    /\ nextReq <= MaxRequests
    /\ Len(UpRequests) < cap
    /\ \E u \in RequestInputs :
          UpRequests' = Append(UpRequests, [id |-> nextReq, Update |-> u])
    /\ nextReq' = nextReq + 1
    /\ UNCHANGED <<outPc, pipelineRequests, outIndex, received, returned,
                   listening, logVars, sendVars, inVars, memVars, chanVars>>

Submit == SubmitTo(UpRequestsCap)

\* A batch that is complete one request too late.
BatchFullOneLate(n) == n > OmCacheOutMaxQueueThreshold

\* len(pipelineRequests) >= tc.Cfg.OmCacheOutMaxQueueThreshold
BatchFull(n) == n >= OmCacheOutMaxQueueThreshold

\* case req := <-tc.UpRequests
CollectRequest ==
    /\ outPc = "collect"
    /\ UpRequests # <<>>
    /\ pipelineRequests' = Append(pipelineRequests, Head(UpRequests))
    /\ UpRequests' = Tail(UpRequests)
    /\ outPc' = IF BatchFull(Len(pipelineRequests) + 1) THEN "commit" ELSE "collect"
    /\ UNCHANGED <<outIndex, received, returned, nextReq, listening, logVars, sendVars, inVars, memVars, chanVars>>

\* case <-timeout
CollectTimeout ==
    /\ outPc = "collect"
    /\ outPc' = "commit"
    /\ UNCHANGED <<UpRequests, pipelineRequests, outIndex, received, returned, nextReq,
                   listening, logVars, sendVars, inVars, memVars, chanVars>>

\* len(pipelineRequests) == 0: the next cycle starts
CommitNothing ==
    /\ outPc = "commit"
    /\ pipelineRequests = <<>>
    /\ outPc' = "collect"
    /\ UNCHANGED <<UpRequests, pipelineRequests, outIndex, received, returned, nextReq,
                   listening, logVars, sendVars, inVars, memVars, chanVars>>

\* results := tc.Replicator.SendUpdates(pipeline)
CommitBatch ==
    /\ outPc = "commit"
    /\ pipelineRequests # <<>>
    /\ \E rep \in {"ok", "down"} : CallSendUpdates(Pipeline(pipelineRequests), rep)
    /\ returned' = [r \in 1..MaxRequests |->
                      IF \E k \in 1..Len(pipelineRequests) : pipelineRequests[k].id = r
                      THEN out'[CHOOSE k \in 1..Len(pipelineRequests) :
                                    pipelineRequests[k].id = r]
                      ELSE returned[r]]
    /\ outIndex' = 1
    /\ outPc' = "deliver"
    /\ UNCHANGED <<UpRequests, pipelineRequests, received, nextReq, submitted, listening, inVars, memVars, chanVars>>

\* for index, result := range results: one send on a result channel, which
\* blocks until the caller receives; after the last one the next cycle starts
\* with an empty batch
Deliver ==
    /\ outPc = "deliver"
    /\ outIndex <= Len(out)
    /\ listening[DeliverTo(pipelineRequests, outIndex)]
    /\ received' = [received EXCEPT ![DeliverTo(pipelineRequests, outIndex)] =
                        Append(@, out[outIndex])]
    /\ outIndex' = outIndex + 1
    /\ outPc' = IF outIndex = Len(out) THEN "collect" ELSE "deliver"
    /\ pipelineRequests' = IF outIndex = Len(out) THEN <<>> ELSE pipelineRequests
    /\ UNCHANGED <<UpRequests, returned, nextReq, listening, logVars, sendVars, inVars, memVars, chanVars>>

NextOut ==
    \/ Submit
    \/ CollectRequest
    \/ CollectTimeout
    \/ CommitNothing
    \/ CommitBatch
    \/ Deliver

SpecOut == Init /\ [][NextOut]_vars

\* The caller of a request that has no response yet stops receiving on its
\* result channel (its context is cancelled; the queue never consults Ctx).
CallerLeaves ==
    /\ \E r \in 1..MaxRequests :
          /\ r < nextReq
          /\ listening[r]
          /\ received[r] = <<>>
          /\ listening' = [listening EXCEPT ![r] = FALSE]
    /\ UNCHANGED <<UpRequests, outPc, pipelineRequests, outIndex, received, returned,
                   nextReq, logVars, sendVars, inVars, memVars, chanVars>>

\* The steps of the queue's goroutine.
QueueStep ==
    \/ CollectRequest
    \/ CollectTimeout
    \/ CommitNothing
    \/ CommitBatch
    \/ Deliver

NextOutLeaving == NextOut \/ CallerLeaves

\* The goroutine is scheduled whenever it can take a step, and a request
\* waiting on UpRequests is received before the cycle's timer fires again.
QueueFairness == WF_vars(QueueStep) /\ SF_vars(CollectRequest)

\* The outgoing queue with callers that may stop receiving.
SpecOutLeaving == Init /\ [][NextOutLeaving]_vars /\ QueueFairness

SubmitSmall == SubmitTo(SmallUpRequestsCap)

NextSmall == SubmitSmall \/ QueueStep

\* The outgoing queue behind an inbound channel smaller than the maximum
\* batch size, with callers that submit one request and await its response.
SpecSmall == Init /\ [][NextSmall]_vars /\ QueueFairness

---------------------------------------------------------------------------
(* Specification of the redis replicator's write path *)

SendTick == Tick /\ UNCHANGED <<sendVars, inVars, queueVars, memVars, chanVars>>

SendCall ==
    /\ \E batch \in Batches(MaxSubmitted - submitted), rep \in {"ok", "down"} :
          /\ CallSendUpdates(batch, rep)
          /\ submitted' = submitted + Len(batch)
    /\ UNCHANGED <<inVars, queueVars, memVars, chanVars>>

NextSend == SendTick \/ SendCall

SpecSend == Init /\ [][NextSend]_vars

---------------------------------------------------------------------------
(* Specification of two instances writing to one stream: each SendUpdates   *)
(* call buffers its XADDs and the XTRIM with rConn.Send and flushes them    *)
(* with rConn.Do(""); the server executes the commands of all connections   *)
(* one at a time.                                                           *)

\* Batches of two updates.
WriterBatches == {b \in SeqsUpTo(RequestInputs, 2) : Len(b) = 2}

\* rConn.Do(""): the buffered XADDs and the XTRIM reach the server.
WriterFlush(w) ==
    /\ wConn[w].pc = "idle"
    /\ \E batch \in WriterBatches :
          /\ Len(committed) + Buffered(wConn, 1) + Len(SentCmds(batch, 1)) <= MaxPipelined
          /\ wConn' = [wConn EXCEPT ![w] =
                 Conn("sent", SentCmds(batch, 1), Len(SentCmds(batch, 1)),
                      now - OmCacheTicketTtlMs, <<>>)]
    /\ UNCHANGED <<now, stream, lastId, committed, sendVars, inVars, queueVars, memVars, chanVars>>

\* The server executes the next XADD of connection w.
ServerXAdd(w) ==
    /\ wConn[w].cmds # <<>>
    /\ LET entry == XAddAll(<<Head(wConn[w].cmds)>>, lastId, now)[1]
       IN  /\ stream' = Append(stream, entry)
           /\ committed' = Append(committed, entry)
           /\ lastId' = entry.id
           /\ wConn' = [wConn EXCEPT ![w] =
                  Conn("sent", Tail(wConn[w].cmds), wConn[w].sent, wConn[w].thresh,
                       Append(wConn[w].replies, entry.id))]
    /\ UNCHANGED <<now, sendVars, inVars, queueVars, memVars, chanVars>>

\* The server executes the XTRIM that ends the pipeline of connection w.
ServerXTrim(w) ==
    /\ wConn[w].pc = "sent"
    /\ wConn[w].cmds = <<>>
    /\ stream' = XTrim(stream, wConn[w].thresh)
    /\ wConn' = [wConn EXCEPT ![w].pc = "idle"]
    /\ UNCHANGED <<now, lastId, committed, sendVars, inVars, queueVars, memVars, chanVars>>

\* The connection breaks while the pipeline is under way: rConn.Do("")
\* returns an error and the server executes none of the remaining commands.
ConnBroken(w) ==
    /\ wConn[w].pc = "sent"
    /\ wConn' = [wConn EXCEPT ![w].pc = "idle", ![w].cmds = <<>>]
    /\ UNCHANGED <<now, stream, lastId, committed, sendVars, inVars, queueVars, memVars, chanVars>>

WriterTick == Tick /\ UNCHANGED <<sendVars, inVars, queueVars, memVars, chanVars>>

Flush == \E w \in Writers : WriterFlush(w)
XAdd == \E w \in Writers : ServerXAdd(w)
XTrimStep == \E w \in Writers : ServerXTrim(w)
Broken == \E w \in Writers : ConnBroken(w)

NextWriters == WriterTick \/ Flush \/ XAdd \/ XTrimStep \/ Broken

SpecWriters == Init /\ [][NextWriters]_vars

---------------------------------------------------------------------------
(* memoryReplicator: the in-memory double of the redis replicator           *)

\* An id generator that does not count within a millisecond.
GetReplIdNoCount(m, t1, t2) ==
    IF t1 = m.replTS
    THEN [replTS |-> m.replTS, replCount |-> m.replCount]
    ELSE [replTS |-> t2, replCount |-> 0]

\* getReplId: t1 is the clock read by the comparison, t2 the clock read by
\* the assignment to rc.replTS.
GetReplId(m, t1, t2) ==
    IF t1 = m.replTS
    THEN [replTS |-> m.replTS, replCount |-> m.replCount + 1]
    ELSE [replTS |-> t2, replCount |-> 0]

\* fmt.Sprintf("%v-%v", replTS.UnixMilli(), replCount)
ReplIdOf(m) == <<m.replTS, m.replCount>>

\* The clock readings of a call: reading k is the reading before it plus
\* d[k], starting from t.
RECURSIVE Readings(_, _)
Readings(t, d) ==
    IF d = <<>> THEN <<>>
    ELSE <<t + Head(d)>> \o Readings(t + Head(d), Tail(d))

\* SendUpdates: the loop over updates. Element i reads the clock as
\* clock[2i-1] and clock[2i]; a ticket gets the new id as its key.
RECURSIVE MemSendUpdates(_, _, _)
MemSendUpdates(m, batch, clock) ==
    IF batch = <<>>
    THEN [m |-> m, sent |-> <<>>, out |-> <<>>]
    ELSE LET m1   == GetReplId(m, clock[1], clock[2])
             up   == IF Head(batch).Cmd = Ticket
                     THEN [Head(batch) EXCEPT !.Key = ReplIdOf(m1)]
                     ELSE Head(batch)
             rest == MemSendUpdates(m1, Tail(batch), Tail(Tail(clock)))
         IN  [m    |-> rest.m,
              sent |-> <<up>> \o rest.sent,
              out  |-> <<StateResponse(ReplIdOf(m1), nil)>> \o rest.out]

\* Updates passed to the in-memory replicator.
MemInputs ==
    { StateUpdate(Ticket, EmptyKey, SomeValue),
      StateUpdate(Activate, NonIdKey, EmptyValue) }

\* A call of SendUpdates whose sends on replChan are all received; the clock
\* goes on, or not, between two readings.
MemSendCall ==
    \E batch \in SeqsUpTo(MemInputs, Min(MaxBatch, MaxIssued - Len(replChan))) \ {<<>>} :
       \E d \in [1..(2 * Len(batch)) -> {0, 1}] :
          LET clock == Readings(now, d)
              res   == MemSendUpdates([replTS |-> replTS, replCount |-> replCount],
                                      batch, clock)
          IN  /\ clock[Len(clock)] <= MaxTime
              /\ now' = clock[Len(clock)]
              /\ replTS' = res.m.replTS
              /\ replCount' = res.m.replCount
              /\ replChan' = replChan \o res.sent
              /\ memOut' = Append(memOut, res.out)
              /\ UNCHANGED <<stream, lastId, committed, wConn, memPc, memPending, memReplies,
                             sendVars, inVars, queueVars, chanVars>>

MemTick == Tick /\ UNCHANGED <<sendVars, inVars, queueVars, memVars, chanVars>>

NextMem == MemTick \/ MemSendCall

SpecMem == Init /\ [][NextMem]_vars

\* results := tc.Replicator.SendUpdates(pipeline) is called.
MemCall ==
    /\ memPc = "idle"
    /\ \E batch \in SeqsUpTo(MemInputs, Min(MaxBatch, MaxQueued - Len(replChan))) \ {<<>>} :
          memPending' = batch
    /\ memReplies' = <<>>
    /\ memPc' = "send"
    /\ UNCHANGED <<replTS, replCount, replChan, memOut, logVars, sendVars, inVars, queueVars,
                   chanVars>>

\* rc.replChan <- up of SendUpdates meets case thisUpdate, more =
\* <-rc.replChan of GetUpdates: the channel has no buffer, the send goes
\* through when the polling goroutine is inside GetUpdates.
MemSend ==
    LET res == MemSendUpdates([replTS |-> replTS, replCount |-> replCount],
                              <<Head(memPending)>>, <<now, now>>)
    IN  /\ memPc = "send"
        /\ memPending # <<>>
        /\ pollPc = "poll"
        /\ memPending' = Tail(memPending)
        /\ replTS' = res.m.replTS
        /\ replCount' = res.m.replCount
        /\ replChan' = replChan \o res.sent
        /\ memReplies' = memReplies \o res.out
        /\ results' = results \o res.sent
        /\ UNCHANGED <<memOut, memPc, replId, pollPc, delivered, replStream, applyVars,
                       logVars, sendVars, queueVars, chanVars>>

\* return out
MemReturn ==
    /\ memPc = "send"
    /\ memPending = <<>>
    /\ memOut' = Append(memOut, memReplies)
    /\ memPc' = "idle"
    /\ UNCHANGED <<replTS, replCount, replChan, memPending, memReplies, logVars, sendVars,
                   inVars, queueVars, chanVars>>

\* case <-timeout of GetUpdates, with at least one update received (a call
\* that returns nothing leaves every variable as it was).
MemGetUpdates ==
    /\ pollPc = "poll"
    /\ results # <<>>
    /\ delivered' = Append(delivered, results)
    /\ pollPc' = "forward"
    /\ UNCHANGED <<replId, results, replStream, applyVars, logVars, sendVars, queueVars,
                   memVars, chanVars>>

NextMemQueue ==
    \/ MemCall
    \/ MemSend
    \/ MemReturn
    \/ MemGetUpdates
    \/ PollForward
    \/ DrainApply
    \/ DrainEmpty
    \/ DrainHoldTimeout
    \/ ExpireStep

\* The in-memory replicator between the outgoing queue and the incoming
\* queue, with goroutines that are scheduled and a drain loop whose select
\* takes a receive that is ready again and again.
SpecMemQueue ==
    /\ Init /\ [][NextMemQueue]_vars
    /\ WF_vars(MemSend \/ MemReturn)
    /\ WF_vars(MemGetUpdates \/ PollForward)
    /\ WF_vars(DrainApply \/ DrainEmpty \/ DrainHoldTimeout \/ ExpireStep)
    /\ SF_vars(DrainApply)

---------------------------------------------------------------------------
(* channel.Or                                                               *)

\* channels[i] of the outermost call, and the orDone of the call at depth k.
InChan(i) == <<"in", i>>
OrDoneChan(k) == <<"od", k>>

\* The argument list of the call at depth k, for n input channels: depth 0
\* gets the inputs, depth k + 1 gets append(channels[3:], orDone) of depth k.
RECURSIVE OrArgs(_, _)
OrArgs(n, k) ==
    IF k = 0 THEN [i \in 1..n |-> InChan(i - 1)]
    ELSE LET up == OrArgs(n, k - 1)
         IN  IF Len(up) < 3 THEN <<>>
             ELSE SubSeq(up, 4, Len(up)) \o <<OrDoneChan(k - 1)>>

\* The call at depth k starts a goroutine: it has two channels or more.
OrHasGoroutine(n, k) == Len(OrArgs(n, k)) >= 2

\* What Or returns for the argument list of depth k: the only channel of a
\* list of one, else the orDone of that call.
OrReturns(n, k) ==
    IF Len(OrArgs(n, k)) = 1 THEN OrArgs(n, k)[1] ELSE OrDoneChan(k)

\* The channels the goroutine of depth k selects on: channels[0] and
\* channels[1] of a list of two; else channels[1], channels[2] and the
\* channel returned by the nested call.
OrSelect(n, k) ==
    LET cs == OrArgs(n, k)
    IN  IF Len(cs) = 2 THEN {cs[1], cs[2]}
        ELSE {cs[2], cs[3], OrReturns(n, k + 1)}

\* done := Or(channels...) with two channels or more
OrCall ==
    /\ orChannels = 0
    /\ \E n \in 2..MaxOrChannels : orChannels' = n
    /\ UNCHANGED <<orClosed, notOrVars>>

\* The caller closes one of the input channels.
OrCloseInput ==
    /\ orChannels > 0
    /\ \E i \in 0..(orChannels - 1) :
          /\ InChan(i) \notin orClosed
          /\ orClosed' = orClosed \cup {InChan(i)}
    /\ UNCHANGED <<orChannels, notOrVars>>

\* The goroutine of depth k: a receive of its select proceeds on a closed
\* channel, the goroutine returns and the deferred close(orDone) runs.
OrGoroutine(k) ==
    /\ orChannels > 0
    /\ OrHasGoroutine(orChannels, k)
    /\ OrDoneChan(k) \notin orClosed
    /\ OrSelect(orChannels, k) \cap orClosed # {}
    /\ orClosed' = orClosed \cup {OrDoneChan(k)}
    /\ UNCHANGED <<orChannels, notOrVars>>

OrGoroutines == \E k \in 0..MaxOrChannels : OrGoroutine(k)

NextOr == OrCall \/ OrCloseInput \/ OrGoroutines

\* Or with goroutines that are scheduled.
SpecOr == Init /\ [][NextOr]_vars /\ WF_vars(OrGoroutines)

---------------------------------------------------------------------------
(* channel.OrDone                                                           *)

\* An inner select without the case <-ctx.Done().
OrDoneInnerNoCtx(cancelled, receiving) ==
    IF receiving THEN {"send"} ELSE {}

\* The cases of the outer select that can proceed.
OrDoneOuter(cancelled, input, inClosed) ==
    (IF cancelled THEN {"return"} ELSE {})
    \cup (IF input # <<>> THEN {"value"} ELSE {})
    \cup (IF input = <<>> /\ inClosed THEN {"closed"} ELSE {})

\* The cases of the inner select that can proceed.
OrDoneInner(cancelled, receiving) ==
    (IF receiving THEN {"send"} ELSE {})
    \cup (IF cancelled THEN {"return"} ELSE {})

\* The producer closes c; what it has not sent is never sent.
OdCloseInput ==
    /\ ~odInClosed
    /\ odInClosed' = TRUE
    /\ odInput' = <<>>
    /\ UNCHANGED <<odCancelled, odPc, odV, odReceived, odListening, notOdVars>>

\* cancel()
OdCancel ==
    /\ ~odCancelled
    /\ odCancelled' = TRUE
    /\ UNCHANGED <<odInput, odInClosed, odPc, odV, odReceived, odListening, notOdVars>>

\* The consumer stops receiving from valStream.
OdConsumerLeaves ==
    /\ odListening
    /\ odListening' = FALSE
    /\ UNCHANGED <<odInput, odInClosed, odCancelled, odPc, odV, odReceived, notOdVars>>

\* case v, ok := <-c with ok true
OdReceive ==
    /\ odPc = "select"
    /\ "value" \in OrDoneOuter(odCancelled, odInput, odInClosed)
    /\ odV' = Head(odInput)
    /\ odInput' = Tail(odInput)
    /\ odPc' = "send"
    /\ UNCHANGED <<odInClosed, odCancelled, odReceived, odListening, notOdVars>>

\* case v, ok := <-c with ok false: return, and the deferred close(valStream)
OdInputClosed ==
    /\ odPc = "select"
    /\ "closed" \in OrDoneOuter(odCancelled, odInput, odInClosed)
    /\ odPc' = "closed"
    /\ UNCHANGED <<odInput, odInClosed, odCancelled, odV, odReceived, odListening, notOdVars>>

\* case valStream <- v, received by the consumer
OdForward ==
    /\ odPc = "send"
    /\ "send" \in OrDoneInner(odCancelled, odListening)
    /\ odReceived' = Append(odReceived, odV)
    /\ odPc' = "select"
    /\ UNCHANGED <<odInput, odInClosed, odCancelled, odV, odListening, notOdVars>>

\* case <-ctx.Done() of either select: return, and the deferred close(valStream)
OdReturn ==
    /\ \/ odPc = "select" /\ "return" \in OrDoneOuter(odCancelled, odInput, odInClosed)
       \/ odPc = "send" /\ "return" \in OrDoneInner(odCancelled, odListening)
    /\ odPc' = "closed"
    /\ UNCHANGED <<odInput, odInClosed, odCancelled, odV, odReceived, odListening, notOdVars>>

OdGoroutine == OdReceive \/ OdInputClosed \/ OdForward \/ OdReturn

NextOrDone == OdCloseInput \/ OdCancel \/ OdConsumerLeaves \/ OdGoroutine

\* OrDone with a goroutine that is scheduled.
SpecOrDone == Init /\ [][NextOrDone]_vars /\ WF_vars(OdGoroutine)

---------------------------------------------------------------------------
(* channel.Tee                                                              *)

\* A send loop that leaves the output it has sent to in the select.
TeeAfterSendKeep(o, pending) == pending

\* o1 = nil, o2 = nil: the output sent to leaves the select.
TeeAfterSend(o, pending) == pending \ {o}

\* The producer closes in; what it has not sent is never sent.
TeeCloseInput ==
    /\ ~teeInClosed
    /\ teeInClosed' = TRUE
    /\ teeInput' = <<>>
    /\ UNCHANGED <<teeCancelled, teePc, teeV, teeI, teeO, teeBuf, teeTaken, teeGot,
                   notTeeVars>>

\* cancel()
TeeCancel ==
    /\ ~teeCancelled
    /\ teeCancelled' = TRUE
    /\ UNCHANGED <<teeInput, teeInClosed, teePc, teeV, teeI, teeO, teeBuf, teeTaken,
                   teeGot, notTeeVars>>

\* case v, ok = <-in with ok true; o1, o2 := out1, out2
TeeReceive ==
    /\ teePc = "recv"
    /\ teeInput # <<>>
    /\ teeV' = Head(teeInput)
    /\ teeInput' = Tail(teeInput)
    /\ teeTaken' = Append(teeTaken, Head(teeInput))
    /\ teeI' = 0
    /\ teeO' = TeeOutputs
    /\ teePc' = "send"
    /\ UNCHANGED <<teeInClosed, teeCancelled, teeBuf, teeGot, notTeeVars>>

\* case o1 <- v, case o2 <- v: a send proceeds when the buffer has room
TeeSend(o) ==
    /\ teePc = "send"
    /\ o \in teeO
    /\ Len(teeBuf[o]) < TeeCap
    /\ teeBuf' = [teeBuf EXCEPT ![o] = Append(@, teeV)]
    /\ teeO' = TeeAfterSend(o, teeO)
    /\ teeI' = teeI + 1
    /\ teePc' = IF teeI + 1 < 2 THEN "send" ELSE "recv"
    /\ UNCHANGED <<teeInput, teeInClosed, teeCancelled, teeV, teeTaken, teeGot, notTeeVars>>

\* case v, ok = <-in with ok false, or case <-ctx.Done() of either select:
\* return, and the deferred close(out2), close(out1)
TeeReturn ==
    /\ \/ teePc = "recv" /\ teeInput = <<>> /\ teeInClosed
       \/ teePc \in {"recv", "send"} /\ teeCancelled
    /\ teePc' = "closed"
    /\ UNCHANGED <<teeInput, teeInClosed, teeCancelled, teeV, teeI, teeO, teeBuf, teeTaken,
                   teeGot, notTeeVars>>

\* A consumer receives from out1 or out2.
TeeConsume(o) ==
    /\ teeBuf[o] # <<>>
    /\ teeGot' = [teeGot EXCEPT ![o] = Append(@, Head(teeBuf[o]))]
    /\ teeBuf' = [teeBuf EXCEPT ![o] = Tail(@)]
    /\ UNCHANGED <<teeInput, teeInClosed, teeCancelled, teePc, teeV, teeI, teeO, teeTaken,
                   notTeeVars>>

TeeSends == \E o \in TeeOutputs : TeeSend(o)

TeeGoroutine == TeeReceive \/ TeeSends \/ TeeReturn

NextTee ==
    \/ TeeCloseInput
    \/ TeeCancel
    \/ TeeGoroutine
    \/ \E o \in TeeOutputs : TeeConsume(o)

\* Tee with a goroutine that is scheduled, two consumers that go on
\* receiving and a producer that closes in in the end.
SpecTee ==
    /\ Init /\ [][NextTee]_vars
    /\ WF_vars(TeeGoroutine)
    /\ WF_vars(TeeCloseInput)
    /\ \A o \in TeeOutputs : WF_vars(TeeConsume(o))

---------------------------------------------------------------------------
(* channel.Bridge                                                           *)

\* The producer closes chanStream; the streams it has not sent are never sent.
BrCloseStreams ==
    /\ ~brStreamsClosed
    /\ brStreamsClosed' = TRUE
    /\ brStreams' = 0
    /\ UNCHANGED <<brInput, brInClosed, brCancelled, brPc, brVal, brOdPc, brOdV,
                   brReceived, brListening, notBrVars>>

\* The producer closes the stream being read.
BrCloseInput ==
    /\ brPc \in {"range", "send"}
    /\ ~brInClosed
    /\ brInClosed' = TRUE
    /\ brInput' = <<>>
    /\ UNCHANGED <<brStreams, brStreamsClosed, brCancelled, brPc, brVal, brOdPc, brOdV,
                   brReceived, brListening, notBrVars>>

\* cancel()
BrCancel ==
    /\ ~brCancelled
    /\ brCancelled' = TRUE
    /\ UNCHANGED <<brStreams, brStreamsClosed, brInput, brInClosed, brPc, brVal, brOdPc,
                   brOdV, brReceived, brListening, notBrVars>>

\* The consumer stops receiving from valStream.
BrConsumerLeaves ==
    /\ brListening
    /\ brListening' = FALSE
    /\ UNCHANGED <<brStreams, brStreamsClosed, brInput, brInClosed, brCancelled, brPc,
                   brVal, brOdPc, brOdV, brReceived, notBrVars>>

\* case maybeStream, ok := <-chanStream with ok true, then OrDone(ctx, stream)
BrTakeStream ==
    /\ brPc = "stream"
    /\ brStreams > 0
    /\ brStreams' = brStreams - 1
    /\ brInput' = [k \in 1..MaxStreamValues |-> k]
    /\ brInClosed' = FALSE
    /\ brOdPc' = "select"
    /\ brPc' = "range"
    /\ UNCHANGED <<brStreamsClosed, brCancelled, brVal, brOdV, brReceived, brListening,
                   notBrVars>>

\* case maybeStream, ok := <-chanStream with ok false, or case <-ctx.Done():
\* return, and the deferred close(valStream)
BrReturn ==
    /\ brPc = "stream"
    /\ (brStreams = 0 /\ brStreamsClosed) \/ brCancelled
    /\ brPc' = "closed"
    /\ UNCHANGED <<brStreams, brStreamsClosed, brInput, brInClosed, brCancelled, brVal,
                   brOdPc, brOdV, brReceived, brListening, notBrVars>>

\* OrDone's goroutine: case v, ok := <-c with ok true
BrOdReceive ==
    /\ brOdPc = "select"
    /\ "value" \in OrDoneOuter(brCancelled, brInput, brInClosed)
    /\ brOdV' = Head(brInput)
    /\ brInput' = Tail(brInput)
    /\ brOdPc' = "send"
    /\ UNCHANGED <<brStreams, brStreamsClosed, brInClosed, brCancelled, brPc, brVal,
                   brReceived, brListening, notBrVars>>

\* OrDone's goroutine returns: the stream is closed or ctx is cancelled
BrOdReturn ==
    /\ \/ brOdPc = "select" /\ OrDoneOuter(brCancelled, brInput, brInClosed)
                                    \cap {"closed", "return"} # {}
       \/ brOdPc = "send" /\ "return" \in OrDoneInner(brCancelled, brPc = "range")
    /\ brOdPc' = "closed"
    /\ UNCHANGED <<brStreams, brStreamsClosed, brInput, brInClosed, brCancelled, brPc,
                   brVal, brOdV, brReceived, brListening, notBrVars>>

\* OrDone's case valStream <- v, received by the range loop
BrRangeNext ==
    /\ brPc = "range"
    /\ brOdPc = "send"
    /\ "send" \in OrDoneInner(brCancelled, brPc = "range")
    /\ brVal' = brOdV
    /\ brOdPc' = "select"
    /\ brPc' = "send"
    /\ UNCHANGED <<brStreams, brStreamsClosed, brInput, brInClosed, brCancelled, brOdV,
                   brReceived, brListening, notBrVars>>

\* The range loop ends: the channel of OrDone is closed
BrRangeEnds ==
    /\ brPc = "range"
    /\ brOdPc = "closed"
    /\ brPc' = "stream"
    /\ UNCHANGED <<brStreams, brStreamsClosed, brInput, brInClosed, brCancelled, brVal,
                   brOdPc, brOdV, brReceived, brListening, notBrVars>>

\* valStream <- val, received by the consumer
BrSend ==
    /\ brPc = "send"
    /\ brListening
    /\ brReceived' = Append(brReceived, brVal)
    /\ brPc' = "range"
    /\ UNCHANGED <<brStreams, brStreamsClosed, brInput, brInClosed, brCancelled, brVal,
                   brOdPc, brOdV, brListening, notBrVars>>

BrGoroutines ==
    \/ BrTakeStream
    \/ BrReturn
    \/ BrOdReceive
    \/ BrOdReturn
    \/ BrRangeNext
    \/ BrRangeEnds
    \/ BrSend

NextBridge ==
    BrCloseStreams \/ BrCloseInput \/ BrCancel \/ BrConsumerLeaves \/ BrGoroutines

\* Bridge with goroutines that are scheduled.
SpecBridge ==
    /\ Init /\ [][NextBridge]_vars
    /\ WF_vars(BrTakeStream \/ BrReturn \/ BrRangeNext \/ BrRangeEnds \/ BrSend)
    /\ WF_vars(BrOdReceive \/ BrOdReturn)

---------------------------------------------------------------------------
(* Specification of the replicated cache: writers commit batches through   *)
(* SendUpdates, the incoming queue polls and applies them.                  *)

\* Keys a caller can name: one that is no identity, and the identities of the
\* tickets committed so far.
KnownKeys ==
    {NonIdKey} \cup {committed[k].id : k \in {j \in 1..Len(committed) :
                                                committed[j].name = "ticket"}}

\* Well-formed updates a caller can submit; a ticket comes without a key or
\* with a key of the caller's choice.
CacheInputs ==
    {StateUpdate(Ticket, EmptyKey, SomeValue), StateUpdate(Ticket, NonIdKey, SomeValue)}
    \cup {StateUpdate(cmd, k, SomeValue) : cmd \in {Activate, Deactivate, Assign},
                                           k \in KnownKeys}

\* A ticket without data: rejected by SendUpdates.
MalformedInput == StateUpdate(Ticket, NonIdKey, EmptyValue)

\* Batches that append at least one entry and at most as many as the stream
\* still takes; a batch may start with a malformed update.
CacheBatches ==
    LET wellFormed == SeqsUpTo(CacheInputs, MaxLog - Len(committed)) \ {<<>>}
    IN  wellFormed \cup {<<MalformedInput>> \o b : b \in wellFormed}

ClockTick == Tick /\ UNCHANGED <<sendVars, inVars, queueVars, memVars, chanVars>>

Commit ==
    /\ Len(committed) < MaxLog
    /\ \E batch \in CacheBatches : CallSendUpdates(batch, "ok")
    /\ UNCHANGED <<submitted, inVars, queueVars, memVars, chanVars>>

Next ==
    \/ ClockTick
    \/ Commit
    \/ PollGetUpdates
    \/ PollForward
    \/ DrainApply
    \/ DrainEmpty
    \/ DrainHoldTimeout
    \/ ExpireStep

Spec == Init /\ [][Next]_vars

\* Entries another client writes to om-replication: an activation and a
\* deactivation of "t1", and an assign entry of two strings, without the
\* connection field and its value.
ForeignEntries ==
    {[name |-> n, key |-> NonIdKey, value |-> EmptyValue] : n \in {"activate", "deactivate"}}
    \cup {[name |-> "assign", key |-> NonIdKey, value |-> MissingValue]}

\* XADD om-replication * ... sent by another client.
ForeignXAdd ==
    /\ pollPc # "panic"
    /\ Len(committed) < MaxLog
    /\ \E f \in ForeignEntries :
          LET e == [id |-> NextId(lastId, now), name |-> f.name, key |-> f.key,
                    value |-> f.value]
          IN  /\ stream' = Append(stream, e)
              /\ committed' = Append(committed, e)
              /\ lastId' = e.id
    /\ UNCHANGED <<now, wConn, sendVars, inVars, queueVars, memVars, chanVars>>

\* The process is gone with the goroutine that panicked.
Running(A) == pollPc # "panic" /\ A

NextForeign ==
    \/ Running(ClockTick)
    \/ ForeignXAdd
    \/ PollGetUpdates
    \/ PollPanics
    \/ PollForward
    \/ Running(DrainApply)
    \/ Running(DrainEmpty)
    \/ Running(DrainHoldTimeout)
    \/ Running(ExpireStep)

\* The incoming queue on a stream that other clients write to as well.
SpecForeign == Init /\ [][NextForeign]_vars

---------------------------------------------------------------------------
(* Specification of the apply loop: the replicator hands over updates read *)
(* from the log (tc.Replicator is an interface), the drain loop applies    *)
(* them and the expiration block sweeps the cache.                         *)

\* Number of updates the replicator has handed over so far.
Forwarded == Len(applied) + Len(replStream)

\* Key of the latest ticket update handed over so far (none: the empty set).
ForwardedTickets ==
    LET all  == applied \o replStream
        tks  == {k \in 1..Len(all) : all[k].Cmd = Ticket}
    IN  {all[k].Key : k \in {j \in tks : \A i \in tks : i <= j}}

\* A value that is no serialized protobuf message.
GarbageValue == [enc |-> "garbage", exp |-> 0]

\* Entries of the log the replicator can read next: a ticket that outlives
\* the clock, one whose own expiration time is the present, one that does not
\* decode; an activation or deactivation of the latest ticket read so far; an
\* activation or deactivation of "t1"; an assignment keyed by that ticket, or
\* by "t1" with a value that decodes or does not.
LogEntries ==
    LET id == <<now, Forwarded>>
    IN  {[id |-> id, name |-> "ticket", key |-> EmptyKey, value |-> v] :
            v \in {SomeValue, TicketPb(now), GarbageValue}}
        \cup {[id |-> id, name |-> n, key |-> k, value |-> EmptyValue] :
                n \in {"activate", "deactivate"}, k \in ForwardedTickets}
        \cup {[id |-> id, name |-> n, key |-> NonIdKey, value |-> EmptyValue] :
                n \in {"activate", "deactivate"}}
        \cup {[id |-> id, name |-> "assign", key |-> k, value |-> SomeValue] :
                k \in ForwardedTickets}
        \cup {[id |-> id, name |-> "assign", key |-> NonIdKey, value |-> v] :
                v \in {SomeValue, GarbageValue}}

\* results := tc.Replicator.GetUpdates() returns one update, which is sent
\* on replStream.
ForwardUpdate ==
    /\ Forwarded < MaxForwarded
    /\ Len(replStream) < OmCacheInMaxUpdatesPerPoll
    /\ \E e \in LogEntries : replStream' = Append(replStream, ParseEntry(e))
    /\ UNCHANGED <<pollVars, applyVars, logVars, sendVars, queueVars, memVars, chanVars>>

NextApply ==
    \/ ClockTick
    \/ ForwardUpdate
    \/ DrainApply
    \/ DrainEmpty
    \/ DrainHoldTimeout
    \/ ExpireStep

SpecApply == Init /\ [][NextApply]_vars

\* Creation times of the entries that were in the log when the cache was
\* started and that the initial cursor lets the replicator read.
BacklogTimes ==
    (StartTime - OmCacheTicketTtlMs - OmCacheAssignmentAdditionalTtlMs)..(StartTime - 1)

\* Entries written before the cache was started: a ticket, and an assignment
\* keyed by the latest ticket read so far.
BacklogEntries ==
    {[id |-> <<t, Forwarded>>, name |-> "ticket", key |-> EmptyKey, value |-> SomeValue] :
        t \in BacklogTimes}
    \cup {[id |-> <<t, Forwarded>>, name |-> "assign", key |-> k, value |-> SomeValue] :
            t \in BacklogTimes, k \in ForwardedTickets}

\* results := tc.Replicator.GetUpdates() returns an update of the backlog,
\* which is sent on replStream; the log hands out its entries in the order
\* of their ids.
ForwardBacklog ==
    /\ Forwarded < MaxForwarded
    /\ Len(replStream) < OmCacheInMaxUpdatesPerPoll
    /\ \E e \in BacklogEntries :
          /\ \A k \in 1..Len(applied) : applied[k].lid[1] <= e.id[1]
          /\ \A k \in 1..Len(replStream) : replStream[k].lid[1] <= e.id[1]
          /\ replStream' = Append(replStream, ParseEntry(e))
    /\ UNCHANGED <<pollVars, applyVars, logVars, sendVars, queueVars, memVars, chanVars>>

NextBacklog == ForwardBacklog \/ NextApply

\* The apply loop of a cache that is started on a log with entries in it.
SpecBacklog == Init /\ [][NextBacklog]_vars

NextReaders ==
    \/ ClockTick
    \/ ForwardUpdate
    \/ ReceiveUpdate
    \/ StoreStep
    \/ DrainEmpty
    \/ DrainHoldTimeout
    \/ BeginSweep
    \/ EndSweep

\* The apply loop with every store and delete on the maps as a step of its
\* own, as a goroutine that reads the maps meanwhile sees it.
SpecReaders == Init /\ [][NextReaders]_vars

\* The apply goroutine loops for ever: drain, expiration block, sleep.
ApplyStep == DrainApply \/ DrainEmpty \/ DrainHoldTimeout \/ ExpireStep

\* The apply loop with a clock that goes on and a goroutine that is scheduled.
SpecApplyFair ==
    Init /\ [][NextApply]_vars /\ WF_vars(ClockTick) /\ WF_vars(ApplyStep)

\* Updates the polling goroutine goes on sending: activations, deactivations
\* and assignments of "t1".
RefillEntries ==
    {[id |-> <<now, 0>>, name |-> n, key |-> NonIdKey, value |-> EmptyValue] :
        n \in {"activate", "deactivate"}}
    \cup {[id |-> <<now, 0>>, name |-> "assign", key |-> NonIdKey, value |-> v] :
            v \in {SomeValue, GarbageValue}}

\* replStream <- v, of a polling goroutine that never runs out of updates
Refill ==
    /\ Len(replStream) < OmCacheInMaxUpdatesPerPoll
    /\ \E e \in RefillEntries : replStream' = Append(replStream, ParseEntry(e))
    /\ UNCHANGED <<pollVars, applyVars, logVars, sendVars, queueVars, memVars, chanVars>>

\* The timer of the iteration under way runs for one step more.
HoldTick ==
    /\ applyPc = "drain"
    /\ holdLeft > 0
    /\ holdLeft' = holdLeft - 1
    /\ UNCHANGED <<applyPc, drained, cacheVars, applied, evicted, stores, replStream,
                   pollVars, logVars, sendVars, queueVars, memVars, chanVars>>

\* case curUpdate := <-replStream, the apply switch, and updateTimeout :=
\* time.After(...) of the next iteration; the histories are not kept.
DrainNext ==
    LET r == Recv(replStream)
        c == ApplyUpdate(Cache, r.val)
    IN  /\ applyPc = "drain"
        /\ replStream # <<>>
        /\ replStream' = r.rest
        /\ Tickets' = c.Tickets
        /\ InactiveSet' = c.InactiveSet
        /\ Assignments' = c.Assignments
        /\ holdLeft' = HoldTicks
        /\ UNCHANGED <<applyPc, drained, applied, evicted, stores, pollVars, logVars,
                       sendVars, queueVars, memVars, chanVars>>

\* case <-updateTimeout, of a timer that has run for its 500 ms
DrainHoldFired == holdLeft = 0 /\ DrainHoldTimeout

RefillStep == DrainNext \/ DrainEmpty \/ DrainHoldFired \/ ExpireStep

NextRefill == Refill \/ HoldTick \/ RefillStep

\* The apply loop beside a polling goroutine that never runs out of updates:
\* time goes on, the apply goroutine is scheduled, and a select that can
\* take the timeout case again and again takes it in the end.
SpecRefill ==
    /\ Init /\ [][NextRefill]_vars
    /\ WF_vars(HoldTick)
    /\ WF_vars(RefillStep)
    /\ SF_vars(DrainHoldFired)

---------------------------------------------------------------------------
(* Properties of SendUpdates *)

\* An update that lacks a field its command needs, or has no known command.
Malformed(u) ==
    \/ u.Cmd \notin {Ticket, Activate, Deactivate, Assign}
    \/ u.Cmd = Ticket /\ u.Value = EmptyValue
    \/ u.Cmd \in {Activate, Deactivate, Assign} /\ u.Key = EmptyKey
    \/ u.Cmd = Assign /\ u.Value = EmptyValue

\* The entry of the log created for element i of the latest batch carries
\* that element's command and data.
Appended(i) ==
    /\ entryOf[i] # NoEntry
    /\ \E k \in 1..Len(committed) :
          /\ committed[k].id = entryOf[i]
          /\ committed[k].value = updates[i].Value
          /\ updates[i].Cmd # Ticket => committed[k].key = updates[i].Key

\* C3: SendUpdates returns one response per element of the batch, and the
\* response at position i of a committed element carries the identity of the
\* entry created for that element.
C3_ResponseMatchesElement ==
    /\ Len(out) = Len(updates)
    /\ \A i \in 1..Len(updates) :
          entryOf[i] # NoEntry => out[i].Result = entryOf[i]

\* C5: every response has an error or a Result that is a log-assigned
\* identity; never a nil error with an empty or non-identity Result.
C5_IdentityOrError ==
    \A i \in 1..Len(out) :
        out[i].Err # nil \/ GetReplIdValidator(out[i].Result)

\* C7: in a batch, exactly the malformed elements get an error, and it is one
\* of the four input errors; when the pipeline is executed by the log, every
\* well-formed element is appended to the log.
C7_OnlyMalformedFail ==
    \A i \in 1..Len(updates) :
        /\ out[i].Err # nil <=> Malformed(updates[i])
        /\ out[i].Err \in {nil, NoTicketKeyErr, NoTicketDataErr,
                            NoAssignmentErr, InvalidInputErr}
        /\ (reply = "ok" /\ ~Malformed(updates[i])) => Appended(i)

C7_Witness ==
    /\ reply = "ok"
    /\ \E i, j \in 1..Len(updates) :
          /\ i < j
          /\ Malformed(updates[i]) /\ out[i].Err # nil
          /\ ~Malformed(updates[j]) /\ out[j].Err = nil /\ Appended(j)

\* C8: a response with an error has the Key of its update as Result; a
\* response without error has the identity the log assigned to its update.
C8_ResultKeyOrIdentity ==
    \A i \in 1..Len(updates) :
        /\ out[i].Err # nil => out[i].Result = updates[i].Key
        /\ out[i].Err = nil => (entryOf[i] # NoEntry /\ out[i].Result = entryOf[i])

---------------------------------------------------------------------------
(* Properties of the incoming replication queue *)

RECURSIVE Flatten(_)
Flatten(ss) == IF ss = <<>> THEN <<>> ELSE Head(ss) \o Flatten(Tail(ss))

RECURSIVE ApplyAll(_, _)
ApplyAll(c, us) == IF us = <<>> THEN c ELSE ApplyAll(ApplyUpdate(c, Head(us)), Tail(us))

\* Position of an entry in the log.
LogPos(id) == CHOOSE k \in 1..Len(committed) : committed[k].id = id

AppliedIds   == {applied[k].lid : k \in 1..Len(applied)}
DeliveredIds == {Flatten(delivered)[k].lid : k \in 1..Len(Flatten(delivered))}

\* The updates of the log that have been applied, in log order.
ProcessedLog ==
    LET es == SelectSeq(committed, LAMBDA e : e.id \in AppliedIds)
    IN  [k \in 1..Len(es) |-> ParseEntry(es[k])]

\* Every entry of the log has been applied and the apply cycle is over.
AllProcessed ==
    /\ committed # <<>>
    /\ Len(applied) = Len(committed)
    /\ applyPc = "drain"
    /\ drained = 0

SubMap(f, g) == DOMAIN f \subseteq DOMAIN g /\ \A x \in DOMAIN f : f[x] = g[x]

\* C1: updates are applied to the cache in the order of the log: of two
\* applied updates, the one applied first comes from the earlier log entry.
C1_ApplyOrderIsLogOrder ==
    \A i, j \in 1..Len(applied) :
        i < j => LogPos(applied[i].lid) < LogPos(applied[j].lid)

C1_Witness ==
    /\ Len(applied) >= 2
    /\ Len(delivered) >= 2

\* C2 as stated: once every committed update is processed, the cache equals
\* the sequential application of the log to an empty cache (compared on
\* Tickets and InactiveSet).
C2_FinalStateIsSequential ==
    LET ref == ApplyAll(EmptyCache,
                        [k \in 1..Len(committed) |-> ParseEntry(committed[k])])
    IN  AllProcessed => (Tickets = ref.Tickets /\ InactiveSet = ref.InactiveSet)

\* C2 amended: the cache is always contained in the sequential application of
\* the processed part of the log to an empty cache, however polling batched
\* it, and equals it as long as no expiration sweep has deleted an entry.
C2_SequentialUpToEviction ==
    LET ref == ApplyAll(EmptyCache, ProcessedLog)
    IN  /\ SubMap(Tickets, ref.Tickets)
        /\ InactiveSet \subseteq ref.InactiveSet
        /\ SubMap(Assignments, ref.Assignments)
        /\ ~evicted => Cache = ref

C2_Witness ==
    /\ AllProcessed
    /\ Len(delivered) >= 2
    /\ ~evicted
    /\ DOMAIN Tickets # {}

\* C6: a CreateTicket whose response carries an identity and no error is in
\* Tickets and in InactiveSet once an apply cycle that drained the entries of
\* its batch has completed (stated for a ticket that has not expired).
C6_CreatedTicketVisible ==
    \A i \in 1..Len(updates) :
        ( /\ updates[i].Cmd = Ticket
          /\ out[i].Err = nil
          /\ GetReplIdValidator(out[i].Result)
          /\ \A j \in 1..Len(updates) : entryOf[j] # NoEntry => entryOf[j] \in AppliedIds
          /\ applyPc = "drain" /\ drained = 0
          /\ now - out[i].Result[1] <= OmCacheTicketTtlMs
          /\ ~(now > updates[i].Value.exp) )
        => (out[i].Result \in DOMAIN Tickets /\ out[i].Result \in InactiveSet)

C10_CreatedTicketStartsInactive ==
    (drained > 0 /\ applied[Len(applied)].Cmd = Ticket) =>
        LET id == applied[Len(applied)].Key
        IN  /\ id \in DOMAIN Tickets
            /\ Tickets[id].Id = id
            /\ id \in InactiveSet

C10_Witness ==
    /\ drained > 0
    /\ applied[Len(applied)].Cmd = Ticket
    /\ applied[Len(applied)].Key \in InactiveSet

\* C11: every key of Tickets is the identity the log assigned to a committed
\* CreateTicket entry and the stored ticket's Id is that key; the key a caller
\* put into a CreateTicket update is no key of Tickets.
C11_TicketKeysAreLogIdentities ==
    /\ \A id \in DOMAIN Tickets :
          /\ \E n \in 1..Len(committed) :
                committed[n].id = id /\ committed[n].name = "ticket"
          /\ GetReplIdValidator(id)
          /\ Tickets[id].Id = id
    /\ \A i \in 1..Len(updates) :
          updates[i].Cmd = Ticket => updates[i].Key \notin DOMAIN Tickets

C11_Witness ==
    /\ DOMAIN Tickets # {}
    /\ \E i \in 1..Len(updates) :
          /\ updates[i].Cmd = Ticket
          /\ updates[i].Key = NonIdKey
          /\ entryOf[i] \in DOMAIN Tickets

---------------------------------------------------------------------------
(* Properties of the outgoing replication queue *)

\* The requests of the batch being delivered.
InBatch(r) == \E k \in 1..Len(pipelineRequests) : pipelineRequests[k].id = r

\* C4: a request admitted to a batch receives one response on its result
\* channel, never more, and it is the response SendUpdates returned at the
\* position of the request's update in the batch.
C4_OneResponsePerRequest ==
    /\ outPc = "deliver" =>
          \A k \in 1..Len(pipelineRequests) :
              /\ updates[k] = pipelineRequests[k].Update
              /\ returned[pipelineRequests[k].id] = out[k]
    /\ \A r \in 1..MaxRequests :
          /\ Len(received[r]) <= 1
          /\ received[r] # <<>> => received[r][1] = returned[r]
          /\ (returned[r] # NoResponse /\ ~InBatch(r)) => received[r] # <<>>

C4_Witness ==
    /\ outPc = "collect"
    /\ \E r1, r2 \in 1..MaxRequests :
          /\ r1 < r2
          /\ Len(out) = 2
          /\ out[1].Err = nil /\ out[2].Err = nil
          /\ out[1] # out[2]
          /\ received[r1] = <<out[1]>>
          /\ received[r2] = <<out[2]>>

---------------------------------------------------------------------------
(* Properties of the apply loop and the expiration block *)

\* Positions of the applied updates that created a ticket.
AppliedTickets == {k \in 1..Len(applied) : applied[k].Cmd = Ticket}

\* Creation time of a ticket: the leading component of its identity.
CreatedAt(id) == ParseCreationTime(id).val

\* C12 as stated, with ttl the configured ticket TTL: an applied ticket
\* (one whose payload decodes) is in Tickets at every time before T+ttl, and
\* in no state left by a sweep that ran later than T+ttl.
C12_PresentUntilTtlThenGone ==
    /\ [](\A k \in AppliedTickets :
              ( /\ ~Unmarshal(applied[k].Value).err
                /\ now < CreatedAt(applied[k].Key) + OmCacheTicketTtlMs )
              => applied[k].Key \in DOMAIN Tickets)
    /\ [][ExpireStep =>
              \A id \in DOMAIN Tickets' :
                  ~(now > CreatedAt(id) + OmCacheTicketTtlMs)]_vars

\* C12 amended: an applied ticket is in Tickets as long as neither its own
\* expiration time nor T+ttl has passed; a sweep leaves no ticket whose own
\* expiration time has passed, and no inactive ticket older than ttl; an
\* active ticket whose own expiration time has not passed stays.
C12_LivesUntilEitherExpiry ==
    /\ [](\A k \in AppliedTickets :
              ( /\ ~(now > Unmarshal(applied[k].Value).exp)
                /\ ~(now - CreatedAt(applied[k].Key) > OmCacheTicketTtlMs) )
              => applied[k].Key \in DOMAIN Tickets)
    /\ [][ExpireStep =>
              /\ \A id \in DOMAIN Tickets' :
                    /\ ~(now > Tickets'[id].exp)
                    /\ id \in InactiveSet' =>
                          ~(now - CreatedAt(id) > OmCacheTicketTtlMs)
              /\ \A id \in DOMAIN Tickets :
                    (id \notin InactiveSet /\ ~(now > Tickets[id].exp))
                    => id \in DOMAIN Tickets']_vars

\* A sweep has deleted one ticket and left another.
C12_Witness ==
    /\ applyPc = "drain" /\ drained = 0
    /\ evicted
    /\ \E k \in AppliedTickets : applied[k].Key \notin DOMAIN Tickets
    /\ \E k \in AppliedTickets : applied[k].Key \in DOMAIN Tickets

\* The update the drain loop receives next has a payload that does not decode.
NextUndecodable ==
    /\ replStream # <<>>
    /\ Recv(replStream).val.Cmd \in {Ticket, Assign}
    /\ Unmarshal(Recv(replStream).val.Value).err

\* C13: applying a CreateTicket or Assign update whose payload does not
\* decode stores or overwrites nothing in Tickets, InactiveSet or Assignments.
C13_UndecodableUpdateSkipped ==
    [][(NextUndecodable /\ DrainApply) => UNCHANGED cacheVars]_vars

\* C14: after every cycle of the outgoing queue, whatever SendUpdates
\* returned and whether or not the callers still receive, the next collect
\* phase starts: a queue that is committing or delivering a batch is
\* eventually collecting again.
C14_NextCycleStarts ==
    (outPc # "collect") ~> (outPc = "collect")

\* C16: the collect phase ends as soon as the batch holds the configured
\* maximum; neither the batch being collected nor the batch passed to
\* SendUpdates holds more requests than that.
C16_BatchWithinThreshold ==
    /\ Len(pipelineRequests) <= OmCacheOutMaxQueueThreshold
    /\ outPc = "collect" => Len(pipelineRequests) < OmCacheOutMaxQueueThreshold
    /\ outPc = "deliver" =>
          /\ updates = Pipeline(pipelineRequests)
          /\ Len(updates) <= OmCacheOutMaxQueueThreshold

C16_Witness ==
    /\ outPc = "deliver"
    /\ Len(updates) = OmCacheOutMaxQueueThreshold
    /\ UpRequests # <<>>

\* A submitted request has no response yet.
Pending == \E r \in 1..MaxRequests : r < nextReq /\ received[r] = <<>>

\* Neither the queue nor a caller waiting for its response can go on.
Stuck == Pending /\ ~ENABLED QueueStep

PositionsOf(w) ==
    {k \in 1..Len(committed) : committed[k].id \in Range(wConn[w].replies)}

\* C17: SendUpdates commits a batch atomically as one log append: the entries
\* of one batch are contiguous in the log, no entry of another instance's
\* batch lies between them, and once the call is over either all well-formed
\* elements of the batch are in the log or none is.
C17_BatchIsOneAppend ==
    \A w \in Writers :
       /\ \A i \in PositionsOf(w), k \in PositionsOf(w) :
             \A j \in i..k : j \in PositionsOf(w)
       /\ wConn[w].pc = "idle" => Len(wConn[w].replies) \in {0, wConn[w].sent}

\* C18: the read cursor advances past an entry only after the entry has been
\* applied to the local cache: every entry of the log at or before the
\* cursor has been applied.
C18_CursorBehindApplied ==
    \A k \in 1..Len(committed) :
       ~IdLess(replId, committed[k].id) => committed[k].id \in AppliedIds

\* The update the drain loop receives next is an Activate.
NextActivate == replStream # <<>> /\ Head(replStream).Cmd = Activate

\* C19: applying Activate(id) removes id from InactiveSet and leaves Tickets
\* (and Assignments) as they were; for an id that is in none of the maps the
\* apply changes nothing and no map gets an entry.
C19_ActivateOnlyClearsInactive ==
    [][(NextActivate /\ DrainApply) =>
          /\ InactiveSet' = InactiveSet \ {Head(replStream).Key}
          /\ Tickets' = Tickets
          /\ Assignments' = Assignments
          /\ (/\ Head(replStream).Key \notin InactiveSet
              /\ Head(replStream).Key \notin DOMAIN Tickets
              /\ Head(replStream).Key \notin DOMAIN Assignments) => UNCHANGED cacheVars]_vars

\* An Activate has just been applied to a ticket that was inactive: the
\* ticket is still stored and no longer in the inactive set.
C19_Witness ==
    /\ applied # <<>>
    /\ applied[Len(applied)].Cmd = Activate
    /\ applied[Len(applied)].Key \in DOMAIN Tickets
    /\ applied[Len(applied)].Key \notin InactiveSet
    /\ \E k \in 1..(Len(applied) - 1) :
          applied[k].Cmd = Ticket /\ applied[k].Key = applied[Len(applied)].Key
    /\ drained > 0

\* The updates applied in the apply cycle under way.
AppliedThisCycle == SubSeq(applied, Len(applied) - drained + 1, Len(applied))

\* An Assign with key "t1" was applied in the apply cycle under way.
AssignedThisCycle ==
    \E k \in 1..Len(AppliedThisCycle) :
       AppliedThisCycle[k].Cmd = Assign /\ AppliedThisCycle[k].Key = NonIdKey

\* C20: an Assign with key "t1", applied when no ticket "t1" exists, stores
\* the assignment under "t1" in Assignments, and the assignment is still
\* stored when the apply cycle that applied it is over.
C20_AssignmentOutlivesItsCycle ==
    [][/\ (/\ DrainApply
           /\ Head(replStream).Cmd = Assign
           /\ Head(replStream).Key = NonIdKey
           /\ NonIdKey \notin DOMAIN Tickets)
          => /\ NonIdKey \in DOMAIN Assignments'
             /\ Assignments'[NonIdKey] = Head(replStream).Value
       /\ (ExpireStep /\ AssignedThisCycle) => NonIdKey \in DOMAIN Assignments']_vars

\* Identities an update can carry: "t1" and the ids the log assigns.
InactiveKeys ==
    {NonIdKey} \cup {<<t, n>> : t \in StartTime..MaxTime, n \in 0..MaxForwarded}

\* C21: no entry of InactiveSet is orphaned for ever: whatever its key and
\* whether or not a ticket goes with it, an identity that is in InactiveSet
\* while the clock still has more than the ticket TTL to run is removed by a
\* later expiration sweep.
C21_InactiveEntryRemoved ==
    \A id \in InactiveKeys :
       (id \in InactiveSet /\ now + OmCacheTicketTtlMs < MaxTime)
          ~> (id \notin InactiveSet)

\* C22: a pass of the expiration sweep leaves in place every entry whose
\* identity does not parse into a creation time, in InactiveSet and in
\* Assignments alike, so that the next sweep examines it again.
C22_UnparsableEntrySkipped ==
    [][ExpireStep =>
          /\ \A id \in InactiveSet :
                ParseCreationTime(id).err => id \in InactiveSet'
          /\ \A id \in DOMAIN Assignments :
                ParseCreationTime(id).err =>
                   /\ id \in DOMAIN Assignments'
                   /\ Assignments'[id] = Assignments[id]]_vars

\* C23: the expiration sweep is idempotent: after a sweep, a second sweep at
\* the same clock with no update applied in between deletes nothing from
\* Tickets, InactiveSet or Assignments.
C23_SweepIdempotent ==
    [][ExpireStep => Expire(Cache', now') = Cache']_vars

\* A sweep has deleted something and left an entry that a second sweep
\* examines again.
C23_Witness ==
    /\ evicted
    /\ applyPc = "drain"
    /\ drained = 0
    /\ InactiveSet # {}
    /\ DOMAIN Tickets # InactiveSet
    /\ Expire(Cache, now) = Cache

\* The identities returned by the SendUpdates calls so far, in the order issued.
Issued ==
    LET rs == Flatten(memOut) IN [k \in 1..Len(rs) |-> rs[k].Result]

\* C24: the identities SendUpdates returns are strictly increasing in
\* (timestamp, sequence) order, within a batch and across successive batches,
\* so none is issued twice, while the clock never goes back.
C24_IdentitiesIncrease ==
    \A i \in 1..Len(Issued), j \in 1..Len(Issued) :
       i < j => IdLess(Issued[i], Issued[j])

\* Two batches have been sent, one of them with several updates, with two
\* identities of one millisecond and identities of different milliseconds.
C24_Witness ==
    /\ Len(memOut) >= 2
    /\ \E b \in 1..Len(memOut) : Len(memOut[b]) >= 2
    /\ \E i \in 1..Len(Issued), j \in 1..Len(Issued) :
          i # j /\ Issued[i][1] = Issued[j][1]
    /\ \E i \in 1..Len(Issued), j \in 1..Len(Issued) : Issued[i][1] # Issued[j][1]

\* C25: for Or called with two channels or more, closing any one input
\* channel, at any position, eventually closes the returned channel.
C25_AnyCloseClosesOr ==
    \A i \in 0..(MaxOrChannels - 1) :
       (InChan(i) \in orClosed) ~> (OrDoneChan(0) \in orClosed)

\* C26: once the context passed to OrDone is cancelled the returned channel
\* is eventually closed, also when the goroutine is blocked sending a value
\* that no one receives; the values forwarded are those of the input, in the
\* order of the input.
C26_CancelClosesOrDone ==
    /\ odCancelled ~> (odPc = "closed")
    /\ [](odReceived = [k \in 1..Len(odReceived) |-> k])

\* The channel was closed on cancellation while the goroutine held a value
\* that no one received, after two values had been forwarded.
C26_Witness ==
    /\ odPc = "closed"
    /\ odCancelled
    /\ ~odListening
    /\ ~odInClosed
    /\ Len(odReceived) >= 2
    /\ odV = Len(odReceived) + 1

\* s is an initial part of t.
IsPrefix(s, t) == Len(s) <= Len(t) /\ s = SubSeq(t, 1, Len(s))

\* Both outputs are closed and both consumers have received every value the
\* goroutine received from the input.
TeeDone ==
    /\ teePc = "closed"
    /\ \A o \in TeeOutputs : teeGot[o] = teeTaken

\* C27: with a context that is not cancelled, each of the two outputs of Tee
\* delivers exactly the values received on the input, in the same order and
\* each once, however the two consumers interleave, and both outputs are
\* closed after the input is closed.
C27_TeeDuplicatesInput ==
    /\ [](\A o \in TeeOutputs : IsPrefix(teeGot[o] \o teeBuf[o], teeTaken))
    /\ []((teePc = "closed" /\ ~teeCancelled) => teeInClosed)
    /\ (<>teeCancelled) \/ <>TeeDone

\* The input was closed after several values, the context was not cancelled,
\* both outputs are closed and each consumer has every value.
C27_Witness ==
    /\ TeeDone
    /\ ~teeCancelled
    /\ Len(teeTaken) >= 3

\* C28: Bridge respects the cancellation of its context: once ctx is
\* cancelled the goroutine of Bridge ends and the returned channel is closed,
\* also when the consumer has stopped receiving from it.
C28_CancelClosesBridge ==
    brCancelled ~> (brPc = "closed")

\* An Activate for id has been applied.
Activated(id) ==
    \E k \in 1..Len(applied) : applied[k].Cmd = Activate /\ applied[k].Key = id

\* C29: no reader of the maps ever sees a ticket as active, present in
\* Tickets and absent from InactiveSet, unless an Activate for it has been
\* applied: the inactive mark is stored before the ticket and deleted after
\* it.
C29_NeverActiveUnlessActivated ==
    \A id \in DOMAIN Tickets : id \notin InactiveSet => Activated(id)

\* Between the two stores of a ticket's creation: the inactive mark is
\* stored, the ticket is not yet.
C29_Witness ==
    /\ applyPc = "store"
    /\ stores # <<>>
    /\ applied[Len(applied)].Cmd = Ticket
    /\ applied[Len(applied)].Key \in InactiveSet
    /\ applied[Len(applied)].Key \notin DOMAIN Tickets
    /\ evicted


\* C30: every drain phase of the apply task ends, also while the polling
\* task keeps refilling the channel: the loop is again and again outside
\* its drain.
C30_DrainTerminates == []<>(applyPc # "drain")


\* C31: when the InactiveSet pass of a sweep is over, every identity that
\* was in InactiveSet with a creation time that parses and an age above the
\* ticket TTL is in neither InactiveSet nor Tickets, and stays out of both
\* to the end of the sweep; an identity whose age does not exceed the TTL
\* keeps its InactiveSet entry, and the pass leaves its ticket as it was.
C31_InactivePassExpiresByAge ==
    [][ExpireStep =>
          LET pass == ExpireInactive(Cache, now)
          IN  \A id \in InactiveSet :
                 ~ParseCreationTime(id).err =>
                    IF now - ParseCreationTime(id).val > OmCacheTicketTtlMs
                    THEN /\ id \notin pass.InactiveSet
                         /\ id \notin DOMAIN pass.Tickets
                         /\ id \notin InactiveSet'
                         /\ id \notin DOMAIN Tickets'
                    ELSE /\ id \in pass.InactiveSet
                         /\ id \in InactiveSet'
                         /\ id \in DOMAIN Tickets =>
                               /\ id \in DOMAIN pass.Tickets
                               /\ pass.Tickets[id] = Tickets[id]]_vars

\* A sweep is over that found two inactive tickets whose own expiration
\* times lie ahead: the one older than the TTL is gone from Tickets and from
\* InactiveSet, the younger one is in both.
C31_Witness ==
    /\ applyPc = "drain" /\ drained = 0
    /\ evicted
    /\ \E j, k \in AppliedTickets :
          /\ applied[j].Value = SomeValue
          /\ applied[k].Value = SomeValue
          /\ now - CreatedAt(applied[j].Key) > OmCacheTicketTtlMs
          /\ applied[j].Key \notin InactiveSet
          /\ applied[j].Key \notin DOMAIN Tickets
          /\ ~(now - CreatedAt(applied[k].Key) > OmCacheTicketTtlMs)
          /\ applied[k].Key \in InactiveSet
          /\ applied[k].Key \in DOMAIN Tickets


\* C32: when the Tickets pass of a sweep is over, Tickets holds no ticket
\* whose own expiration time is in the past, be its identity in InactiveSet
\* or not, and the same is true at the end of the sweep; the pass leaves
\* InactiveSet and Assignments as the InactiveSet pass left them.
C32_TicketsPassExpiresByOwnTime ==
    [][ExpireStep =>
          LET before == ExpireInactive(Cache, now)
              pass   == ExpireTickets(before, now)
          IN  /\ \A id \in DOMAIN pass.Tickets : ~(now > pass.Tickets[id].exp)
              /\ \A id \in DOMAIN Tickets' : ~(now > Tickets'[id].exp)
              /\ pass.InactiveSet = before.InactiveSet
              /\ pass.Assignments = before.Assignments
              /\ InactiveSet' = before.InactiveSet]_vars

\* A sweep is over that found an active ticket, no older than the TTL, whose
\* own expiration time had passed: the ticket is gone.
C32_Witness ==
    /\ applyPc = "drain" /\ drained = 0
    /\ evicted
    /\ \E k \in AppliedTickets :
          /\ ~Unmarshal(applied[k].Value).err
          /\ now > Unmarshal(applied[k].Value).exp
          /\ ~(now - CreatedAt(applied[k].Key) > OmCacheTicketTtlMs)
          /\ \E a \in 1..Len(applied) :
                a > k /\ applied[a].Cmd = Activate /\ applied[a].Key = applied[k].Key
          /\ applied[k].Key \notin DOMAIN Tickets


\* C33: a sweep deletes an assignment whose identity yields a creation time
\* exactly when its age exceeds the ticket TTL plus the additional
\* assignment TTL: a younger assignment is left as it was by every sweep,
\* also when its ticket is no longer in Tickets.
C33_AssignmentExpiresByAge ==
    [][ExpireStep =>
          \A id \in DOMAIN Assignments :
             ~ParseCreationTime(id).err =>
                IF now - ParseCreationTime(id).val >
                      OmCacheTicketTtlMs + OmCacheAssignmentAdditionalTtlMs
                THEN id \notin DOMAIN Assignments'
                ELSE /\ id \in DOMAIN Assignments'
                     /\ Assignments'[id] = Assignments[id]]_vars

\* A sweep is over that removed a ticket and left its assignment, which is
\* older than the ticket TTL and no older than both TTLs together.
C33_Witness ==
    /\ applyPc = "drain" /\ drained = 0
    /\ evicted
    /\ \E k \in AppliedTickets :
          /\ applied[k].Key \notin DOMAIN Tickets
          /\ applied[k].Key \in DOMAIN Assignments
          /\ now - CreatedAt(applied[k].Key) > OmCacheTicketTtlMs


\* The updates of the GetUpdates results the polling goroutine has not yet
\* sent on replStream.
Unsent == IF pollPc = "forward" THEN results ELSE <<>>

\* C34 as stated: a GetUpdates result longer than the capacity of replStream
\* does not reach the apply loop whole: once it is forwarded, one of the
\* updates delivered is neither applied nor waiting in the channel.
C34_LongResultLosesUpdates ==
    ( /\ \E k \in 1..Len(delivered) : Len(delivered[k]) > OmCacheInMaxUpdatesPerPoll
      /\ pollPc = "poll" )
    => applied \o replStream # Flatten(delivered)

\* C34 amended: no delivered update is dropped, whatever the length of a
\* GetUpdates result: the updates delivered so far are the updates applied,
\* followed by those waiting in replStream, followed by those the polling
\* goroutine has still to send, in the order delivered.
C34_NoDeliveredUpdateDropped ==
    /\ Flatten(delivered) = applied \o replStream \o Unsent
    /\ Len(replStream) <= OmCacheInMaxUpdatesPerPoll

\* A GetUpdates result longer than the capacity of replStream was delivered
\* and every update of it is applied.
C34_Witness ==
    /\ \E k \in 1..Len(delivered) : Len(delivered[k]) > OmCacheInMaxUpdatesPerPoll
    /\ pollPc = "poll"
    /\ replStream = <<>>
    /\ applied = Flatten(delivered)


\* C37: with the in-memory replicator the outgoing queue, the polling task
\* and the apply task never block each other for ever: under fair
\* scheduling the SendUpdates call under way returns, and every update it
\* has handed to GetUpdates is applied, for batches shorter than, as long as
\* and longer than the capacity of replStream.
C37_MemoryPipelineNeverStuck ==
    /\ []<>(memPc = "idle")
    /\ []<>(applied = replChan)

\* A SendUpdates call with a batch longer than the capacity of replStream
\* has returned, and all its updates are applied.
C37_Witness ==
    /\ memPc = "idle"
    /\ \E k \in 1..Len(memOut) : Len(memOut[k]) > OmCacheInMaxUpdatesPerPoll
    /\ applied = replChan
    /\ replStream = <<>>


\* C35: every SendUpdates call whose pipeline the server executes trims the
\* log, a call whose elements are all malformed included: the stream the
\* call leaves holds no entry older than the current time minus the ticket
\* TTL. A call is the step that raises submitted.
C35_EveryCallTrims ==
    [][(submitted' # submitted /\ reply' = "ok") =>
          \A k \in 1..Len(stream') :
             ~(stream'[k].id[1] < now' - OmCacheTicketTtlMs)]_vars

\* The latest call had malformed elements only and reached the server; the
\* one entry ever appended, older than the ticket TTL by now, is gone from
\* the stream.
C35_Witness ==
    /\ reply = "ok"
    /\ updates # <<>>
    /\ \A i \in 1..Len(updates) : Malformed(updates[i])
    /\ Len(committed) = 1
    /\ committed[1].id[1] < now - OmCacheTicketTtlMs
    /\ stream = <<>>


\* C36: no item makes a background task end or panic: whatever the entries
\* of the log, a log entry with missing fields included, the polling task is
\* never stopped by a panic.
C36_NoItemStopsATask == pollPc # "panic"


\* The maps f and g have the same entries under every key but k.
SameButAt(f, g, k) ==
    /\ DOMAIN f \ {k} = DOMAIN g \ {k}
    /\ \A id \in DOMAIN f \ {k} : f[id] = g[id]

\* C38: an applied command changes its own containers only, and in them the
\* entry under the key of the update only: Activate and Deactivate leave
\* Tickets and Assignments as they were, Assign leaves Tickets and
\* InactiveSet, CreateTicket leaves Assignments.
C38_CommandChangesOwnEntryOnly ==
    [][Len(applied') = Len(applied) + 1 =>
          LET u == applied'[Len(applied')]
          IN  /\ u.Cmd \in {Activate, Deactivate} =>
                    /\ Tickets' = Tickets
                    /\ Assignments' = Assignments
                    /\ InactiveSet' \ {u.Key} = InactiveSet \ {u.Key}
              /\ u.Cmd = Assign =>
                    /\ Tickets' = Tickets
                    /\ InactiveSet' = InactiveSet
                    /\ SameButAt(Assignments, Assignments', u.Key)
              /\ u.Cmd = Ticket =>
                    /\ Assignments' = Assignments
                    /\ InactiveSet' \ {u.Key} = InactiveSet \ {u.Key}
                    /\ SameButAt(Tickets, Tickets', u.Key)]_vars

\* An Assign was applied for a ticket that is stored and inactive: the
\* assignment is stored, the ticket and its inactive mark are as they were.
C38_Witness ==
    /\ drained > 0
    /\ applied[Len(applied)].Cmd = Assign
    /\ applied[Len(applied)].Key \in DOMAIN Assignments
    /\ applied[Len(applied)].Key \in DOMAIN Tickets
    /\ applied[Len(applied)].Key \in InactiveSet

=============================================================================
